---- MODULE Spec2Model ----
(***************************************************************************)
(* Access-decision engine of the intercepting proxy (src/src):             *)
(* ProxyHandler (proxy_handler.py) and the use cases CheckDomainAccess,    *)
(* CheckYouTubeAccess and VerifyLocationRestrictions it drives.            *)
(*                                                                         *)
(* Python strings are sequences of tokens: a token stands for a run of     *)
(* characters that no operation of the program splits ("youtube", "."),    *)
(* so `x in s` is "x is a contiguous sub-sequence of s".                   *)
(***************************************************************************)
EXTENDS Integers, Sequences, FiniteSets, TLC

(***************************************************************************)
(* Bounds of the model (not constants of the program).                     *)
(***************************************************************************)
\* longest configured list of blocked zones
MaxZones == 2
\* reported positions are BaseLat + 0 .. BaseLat + MaxPosition
MaxPosition == 4

(***************************************************************************)
(* String primitives.                                                      *)
(***************************************************************************)
\* Python `needle in hay`
Contains(needle, hay) ==
  \E i \in 0..(Len(hay) - Len(needle)) : SubSeq(hay, i + 1, i + Len(needle)) = needle

\* index of the first occurrence of token t in s, 0 when absent
IndexOf(s, t) ==
  IF \E i \in 1..Len(s) : s[i] = t
  THEN CHOOSE i \in 1..Len(s) : s[i] = t /\ \A j \in 1..(i - 1) : s[j] # t
  ELSE 0

\* s.split(t)[0]
BeforeFirst(s, t) == IF IndexOf(s, t) = 0 THEN s ELSE SubSeq(s, 1, IndexOf(s, t) - 1)

\* everything after the first t (empty when t is absent)
AfterFirst(s, t) == IF IndexOf(s, t) = 0 THEN <<>> ELSE SubSeq(s, IndexOf(s, t) + 1, Len(s))

\* s.split(t) for a one-token separator
RECURSIVE Split(_, _)
Split(s, t) ==
  IF IndexOf(s, t) = 0 THEN <<s>>
  ELSE <<BeforeFirst(s, t)>> \o Split(AfterFirst(s, t), t)

\* s.strip('/')
RECURSIVE StripSlashes(_)
StripSlashes(s) ==
  IF s # <<>> /\ Head(s) = "/" THEN StripSlashes(Tail(s))
  ELSE IF s # <<>> /\ s[Len(s)] = "/" THEN StripSlashes(SubSeq(s, 1, Len(s) - 1))
  ELSE s

(***************************************************************************)
(* urllib.parse as the handlers use it.  None is the empty sequence.       *)
(***************************************************************************)
None == <<>>

\* the part of a URL after "scheme://" (the whole string when there is no scheme)
AfterScheme(url) == IF IndexOf(url, "://") = 0 THEN url ELSE AfterFirst(url, "://")

\* urlparse(url).netloc
urlparse_netloc(url) ==
  IF IndexOf(url, "://") = 0 THEN <<>>
  ELSE BeforeFirst(BeforeFirst(AfterScheme(url), "/"), "?")

\* urlparse(url).path
urlparse_path(url) ==
  LET rest == AfterScheme(url)
      noq  == BeforeFirst(rest, "?")
  IN  IF IndexOf(url, "://") = 0 THEN noq
      ELSE IF IndexOf(noq, "/") = 0 THEN <<>>
      ELSE SubSeq(noq, IndexOf(noq, "/"), Len(noq))

\* urlparse(url).query
urlparse_query(url) == AfterFirst(url, "?")

\* parse_qs(query): the pairs name=value with a non-blank value, in order
parse_qs(query) ==
  LET fields == Split(query, "&")
      kept   == SelectSeq(fields, LAMBDA f : IndexOf(f, "=") > 1 /\ AfterFirst(f, "=") # <<>>)
  IN  [i \in 1..Len(kept) |-> [name |-> BeforeFirst(kept[i], "="), value |-> AfterFirst(kept[i], "=")]]

\* `name in parse_qs(query)`
HasParam(query, name) == \E i \in 1..Len(parse_qs(query)) : parse_qs(query)[i].name = <<name>>

\* parse_qs(query)[name][0]
FirstParam(query, name) ==
  LET qs == parse_qs(query)
      i  == CHOOSE k \in 1..Len(qs) : qs[k].name = <<name>> /\ \A j \in 1..(k - 1) : qs[j].name # <<name>>
  IN  qs[i].value

(***************************************************************************)
(* Host names.  tldextract.extract(host): the registrable domain is the    *)
(* label before the public suffix; an IP address has no suffix.            *)
(***************************************************************************)
PublicSuffixes == {"com", "net", "org", "be"}
NumericLabels  == {<<"10">>, <<"0">>, <<"1">>}

Labels(host) == Split(host, ".")

\* ipaddress.ip_address(host.split(':')[0]) does not raise
IsIPAddress(host) ==
  LET h == BeforeFirst(host, ":")
  IN  Len(Labels(h)) = 4 /\ \A i \in 1..4 : Labels(h)[i] \in NumericLabels

\* f"{extracted.domain}.{extracted.suffix}" for extracted = tldextract.extract(host)
ExtractBaseDomain(host) ==
  LET h  == BeforeFirst(host, ":")
      ls == Labels(h)
      n  == Len(ls)
  IN  IF IsIPAddress(h) THEN h \o <<".">>
      ELSE IF n >= 2 /\ ls[n] \in {<<x>> : x \in PublicSuffixes}
           THEN ls[n - 1] \o <<".">> \o ls[n]
           ELSE ls[n] \o <<".">>

\* registrable domains that the program or the model names
D_apple_com          == <<"apple", ".", "com">>
D_icloud_com         == <<"icloud", ".", "com">>
D_icloud_content_com == <<"icloud-content", ".", "com">>
D_mzstatic_com       == <<"mzstatic", ".", "com">>
D_youtube_com        == <<"youtube", ".", "com">>
D_googlevideo_com    == <<"googlevideo", ".", "com">>
D_amazon_com         == <<"amazon", ".", "com">>

\* video ids of the model: V1 and V2 exist, V404 does not
V1   == <<"v1">>
V2   == <<"v2">>
V404 == <<"v404">>

(***************************************************************************)
(* An intercepted flow: the request (host, SNI of the client connection,   *)
(* method, path with its query string, Referer header, body of a location  *)
(* report with its device_id) and, for the response hook, the response's   *)
(* status code and Location header.  An absent header or SNI is the empty  *)
(* string.                                                                 *)
(***************************************************************************)
NoBody == [json_ok |-> FALSE, has_coords |-> FALSE, lat |-> 0, lon |-> 0,
           device_id |-> "iPhone"]

Flow(host, sni, method, path, referer) ==
  [host |-> host, sni |-> sni, method |-> method, path |-> path, referer |-> referer,
   body |-> NoBody, status_code |-> 0, location |-> <<>>]

NoFlow == Flow(<<>>, <<>>, "", <<>>, <<>>)

\* ProxyHandler._extract_base_domain(flow): (full_hostname, base_domain)
extract_base_domain(flow) ==
  IF IsIPAddress(flow.host)
  THEN IF flow.sni # <<>>
       THEN [full_hostname |-> flow.sni, base_domain |-> ExtractBaseDomain(flow.sni)]
       ELSE [full_hostname |-> BeforeFirst(flow.host, ":"),
             base_domain |-> BeforeFirst(flow.host, ":")]
  ELSE [full_hostname |-> flow.host, base_domain |-> ExtractBaseDomain(flow.host)]

\* ProxyHandler._build_full_url(flow): flow.request.pretty_url
build_full_url(flow) == <<"https", "://">> \o flow.host \o flow.path

(***************************************************************************)
(* Video ids in URLs: CheckYouTubeAccess._extract_video_id                 *)
(* (check_youtube_access.py 69-103), the handler's own early extraction    *)
(* (proxy_handler.py 109-112) and the URL that the video check builds      *)
(* (proxy_handler.py 309).                                                 *)
(***************************************************************************)
YOUTU_BE_SLASH == <<"youtu", ".", "be", "/">>

\* CheckYouTubeAccess._extract_video_id(url)
extract_video_id(url) ==
  LET query == urlparse_query(url)
  IN  IF HasParam(query, "v")
      THEN LET video_id == FirstParam(query, "v")
           IN  IF Contains(<<"?">>, video_id) THEN BeforeFirst(video_id, "?") ELSE video_id
      ELSE IF HasParam(query, "docid") THEN FirstParam(query, "docid")
      ELSE IF Contains(YOUTU_BE_SLASH, url) THEN StripSlashes(urlparse_path(url))
      ELSE None

\* current_video_id = query.get('v', query.get('docid', [None]))[0]
current_video_id_of(youtube_url) ==
  LET query == urlparse_query(youtube_url)
  IN  IF HasParam(query, "v") THEN FirstParam(query, "v")
      ELSE IF HasParam(query, "docid") THEN FirstParam(query, "docid")
      ELSE None

WATCH_URL_PREFIX ==
  <<"https", "://", "www", ".", "youtube", ".", "com", "/", "watch", "?", "v", "=">>

\* video_id = query.get('v', [None])[0] of the video-check endpoint (lines 287-289)
check_video_id_of(path) ==
  LET query == urlparse_query(path)
  IN  IF HasParam(query, "v") THEN FirstParam(query, "v") ELSE None

(***************************************************************************)
(* Units of the geofence: millidegrees and millimetres.                     *)
(***************************************************************************)
\* R * pi / 180 / 1000 for R = 6371000 m, in millimetres per millidegree
MillimetresPerMillidegree == 111195

(***************************************************************************)
(* Inputs: hosts, paths, referers, zones, positions, database contents.    *)
(***************************************************************************)
H_youtube       == <<"www", ".", "youtube", ".", "com">>
H_googlevideo   == <<"rr1", ".", "googlevideo", ".", "com">>
H_apple         == <<"www", ".", "apple", ".", "com">>
H_pineapple     == <<"www", ".", "pine", "apple", ".", "com">>
H_example       == <<"www", ".", "example", ".", "com">>
H_images_amazon == <<"images-", "amazon", ".", "com">>
H_captive       == <<"captive", ".", "apple", ".", "com">>
H_gstatic       == <<"connectivitycheck", ".", "gstatic", ".", "com">>
H_portal        == <<"login", ".", "portal", ".", "net">>
H_ip            == <<"10", ".", "0", ".", "0", ".", "1">>
\* a host of apple.com whose name contains youtube.com
H_youtube_apple == <<"youtube", ".", "com", ".", "apple", ".", "com">>

D_example_com == <<"example", ".", "com">>
D_portal_net  == <<"portal", ".", "net">>
D_gstatic_com == <<"gstatic", ".", "com">>

P_root          == <<"/">>
P_watch(v)      == <<"/", "watch", "?", "v", "=">> \o v
P_check(v)      == <<"/", "__check_youtube_video__", "?", "v", "=">> \o v
P_check_none    == <<"/", "__check_youtube_video__">>
P_track         == <<"/", "__track_location__">>
P_videoplayback == <<"/", "videoplayback">>

\* the v parameter of a watch URL that an upstream concatenated twice
V1_malformed == <<"v1", "?", "v", "=", "v1">>

R_none      == <<>>
R_example   == <<"https", "://">> \o H_example \o P_root
R_home      == <<"https", "://">> \o H_youtube \o P_root
R_watch(v)  == <<"https", "://">> \o H_youtube \o P_watch(v)

\* the Location header of a redirect to the portal
L_portal == <<"https", "://">> \o H_portal \o P_root
\* a relative Location header
L_relative == <<"/", "login">>

Get(host, path)           == Flow(host, <<>>, "GET", path, R_none)
GetFrom(host, path, ref)  == Flow(host, <<>>, "GET", path, ref)
GetSni(host, sni, path)   == Flow(host, sni, "GET", path, R_none)

\* a POST /__track_location__ with a JSON body carrying the coordinates
Report(lat, lon) ==
  [Flow(H_example, <<>>, "POST", P_track, R_none)
     EXCEPT !.body = [json_ok |-> TRUE, has_coords |-> TRUE, lat |-> lat, lon |-> lon,
                      device_id |-> "iPhone"]]

\* the same report with a device_id of its own in the body (line 246)
ReportFrom(device_id, lat, lon) ==
  [Report(lat, lon) EXCEPT !.body.device_id = device_id]

\* a POST /__track_location__ whose body is JSON without coordinates
ReportWithoutCoordinates ==
  [Flow(H_example, <<>>, "POST", P_track, R_none)
     EXCEPT !.body = [json_ok |-> TRUE, has_coords |-> FALSE, lat |-> 0, lon |-> 0,
      device_id |-> "iPhone"]]

\* a POST /__track_location__ whose body is not JSON
ReportNotJson ==
  [Flow(H_example, <<>>, "POST", P_track, R_none)
     EXCEPT !.body = [json_ok |-> FALSE, has_coords |-> FALSE, lat |-> 0, lon |-> 0,
      device_id |-> "iPhone"]]

\* the response to a GET of host: status code and Location header
Answer(host, status_code, location) ==
  [Get(host, P_root) EXCEPT !.status_code = status_code, !.location = location]

BaseLat     == 48178
MeridianLon == 16421

Positions == {[lat |-> BaseLat + k, lon |-> MeridianLon] : k \in 0..MaxPosition}

Zone(id, k, radius, name) ==
  [id |-> id, lat |-> BaseLat + k, lon |-> MeridianLon, radius |-> radius, name |-> name]

\* ZA holds position 0 only; ZB holds 0..2 with 0 and 2 on its boundary; ZC holds 1..3
ZA == Zone(1, 0, 100000, "ZA")
ZB == Zone(2, 1, MillimetresPerMillidegree, "ZB")
ZC == Zone(3, 2, 120000, "ZC")

ZoneLists ==
  {zs \in UNION {[1..n -> {ZA, ZB, ZC}] : n \in 0..MaxZones} :
     \A i, j \in 1..Len(zs) : i # j => zs[i] # zs[j]}

Database(up, hosts, channels, whitelist) ==
  [up |-> up, allowed_hosts |-> hosts, youtube_channels |-> channels,
   blocked_location_whitelist |-> whitelist]

(***************************************************************************)
(* The flows, answers and databases of SpecYouTube and SpecHooks.           *)
(***************************************************************************)
YT_Hosts    == {D_youtube_com, D_googlevideo_com}
YT_Channels == {{}, {"UCabc"}, {"UCabc", "UCxyz"}}

\* the whitelist of zone 1
YT_ZoneWhitelist == {<<1, D_googlevideo_com>>, <<1, D_youtube_com>>}

YT_Databases ==
  {Database(TRUE, YT_Hosts, c, YT_ZoneWhitelist) : c \in YT_Channels}
    \cup {Database(FALSE, YT_Hosts, {"UCabc"}, YT_ZoneWhitelist),
          Database(TRUE, YT_Hosts, {}, {})}

YT_Flows ==
  {Get(H_youtube, P_watch(v)) : v \in {V1, V2, V404, V1_malformed}}
    \cup {Get(H_youtube, P_root), GetSni(H_ip, H_youtube, P_watch(V2)),
          Get(H_youtube_apple, P_watch(V2))}
    \cup {GetFrom(H_googlevideo, P_videoplayback, ref) :
            ref \in {R_none, R_example, R_home, R_watch(V1), R_watch(V2)}}
    \cup {Get(H_youtube, P_check(V1)), Get(H_youtube, P_check(V2)),
          Get(H_youtube, P_check_none), Get(H_example, P_check(V2))}
    \cup {Report(BaseLat, MeridianLon), Report(BaseLat + MaxPosition, MeridianLon)}

YT_Answers == {Answer(H_youtube, 511, <<>>)}

HK_Databases == {Database(TRUE, YT_Hosts, c, {}) : c \in {{"UCabc"}, {"UCabc", "UCxyz"}}}

HK_WatchFlows == {Get(H_youtube, P_watch(v)) : v \in {V1, V2}}

HK_Flows ==
  {GetFrom(H_googlevideo, P_videoplayback, ref) : ref \in {R_none, R_home, R_watch(V1)}}
    \cup {Get(H_youtube, P_check(V1)), Get(H_youtube, P_check(V2))}

(***************************************************************************)
(* The flows, answers and databases of SpecGeofence.                        *)
(***************************************************************************)
GF_Hosts == {D_example_com}

GF_Databases ==
  {Database(TRUE, GF_Hosts, {}, w) :
     w \in {{}, {<<1, D_example_com>>, <<2, D_portal_net>>, <<3, D_gstatic_com>>}}}
    \cup {Database(FALSE, GF_Hosts, {}, {<<1, D_example_com>>})}

GF_Flows ==
  {Report(p.lat, p.lon) : p \in Positions}
    \cup {Report(90001, MeridianLon), Report(BaseLat, 0 - 180001),
          ReportWithoutCoordinates, ReportNotJson}
    \cup {ReportFrom("iPad", BaseLat, MeridianLon),
          ReportFrom("iPad", BaseLat + MaxPosition, MeridianLon)}
    \cup {Get(h, P_root) : h \in {H_apple, H_pineapple, H_example, H_portal, H_gstatic}}

GF_Answers == {Answer(H_portal, 511, <<>>)}

(***************************************************************************)
(* The flows, answers and databases of SpecPortal.                          *)
(***************************************************************************)
PT_Databases ==
  {Database(TRUE, hosts, {}, {}) : hosts \in {{}, {D_example_com}}}
    \cup {Database(FALSE, {D_example_com}, {}, {})}

PT_Flows ==
  {Get(h, P_root) : h \in {H_apple, H_pineapple, H_example, H_images_amazon, H_captive,
                           H_gstatic, H_portal, H_youtube}}
    \cup {GetSni(H_ip, H_portal, P_root), Get(H_ip, P_root)}

PT_Answers ==
  {Answer(H_youtube, 511, <<>>), Answer(H_apple, 511, <<>>),
   Answer(H_gstatic, 302, L_portal), Answer(H_example, 302, L_portal),
   Answer(H_pineapple, 307, L_portal), Answer(H_example, 301, L_relative),
   Answer(H_portal, 302, L_portal),
   Answer(H_example, 200, <<>>)}

(***************************************************************************)
(* The parsing functions above, tabulated once for the flows and URLs of   *)
(* the model.                                                              *)
(***************************************************************************)
ModelFlows ==
  YT_Flows \cup YT_Answers \cup HK_WatchFlows \cup HK_Flows
    \cup GF_Flows \cup GF_Answers \cup PT_Flows \cup PT_Answers

ModelUrls ==
  UNION {{build_full_url(f), f.referer, WATCH_URL_PREFIX \o check_video_id_of(f.path)} :
           f \in ModelFlows}

HostAndBase     == [f \in ModelFlows |-> extract_base_domain(f)]
ExtractedId     == [url \in ModelUrls |-> extract_video_id(url)]
CurrentId       == [url \in ModelUrls |-> current_video_id_of(url)]
CheckedId       == [f \in ModelFlows |-> check_video_id_of(f.path)]

(***************************************************************************)
(* State of the process.                                                   *)
(***************************************************************************)
VARIABLES
  approved_video_ids,            \* ProxyHandler._approved_video_ids
  redirect_tracker,              \* ProxyHandler.redirect_tracker
  auto_whitelisted_hosts,        \* CheckDomainAccess._auto_whitelisted_hosts
  video_to_channel_cache,        \* CheckYouTubeAccess._video_to_channel_cache
  blocked_zones,                 \* VerifyLocationRestrictions._blocked_zones
  currently_at_blocked_location, \* VerifyLocationRestrictions._currently_at_blocked_location
  current_blocked_zone,          \* VerifyLocationRestrictions._current_blocked_zone
  last_distance,                 \* VerifyLocationRestrictions._last_distance
  has_api_key,                   \* YouTubeAPIClient._api_key is set
  db,                            \* the database behind the repositories
  pc,                            \* the watch-page handler in flight and its position
  last,                          \* the event handled last and its outcome
  block_pending                  \* history: a watch page was denied for its channel and
                                 \* no YouTube decision has allowed a video since

vars == <<approved_video_ids, redirect_tracker, auto_whitelisted_hosts,
          video_to_channel_cache, blocked_zones, currently_at_blocked_location,
          current_blocked_zone, last_distance, has_api_key, db, pc, last, block_pending>>

(***************************************************************************)
(* AccessDecision and BlockReason (domain/value_objects.py).               *)
(***************************************************************************)
NOT_WHITELISTED          == "domain_not_whitelisted"
YOUTUBE_CHANNEL_BLOCKED  == "youtube_channel_not_whitelisted"
LOCATION_RESTRICTED      == "at_blocked_location"
ESSENTIAL_ALWAYS_ALLOWED == "essential_host"
CAPTIVE_PORTAL           == "captive_portal_detection"

Allow(reason, message) == [allowed |-> TRUE, reason |-> reason, message |-> message]
Deny(reason, message)  == [allowed |-> FALSE, reason |-> reason, message |-> message]
\* no decision was taken
NoDecision == [allowed |-> FALSE, reason |-> "none", message |-> <<>>]

(***************************************************************************)
(* CheckDomainAccess (application/use_cases/check_domain_access.py).       *)
(***************************************************************************)
ESSENTIAL_HOSTS == {D_apple_com, D_icloud_com, D_icloud_content_com, D_mzstatic_com}

CAPTIVE_PORTAL_HOSTS ==
  { <<"captive", ".", "apple", ".", "com">>,
    <<"connectivitycheck", ".", "gstatic", ".", "com">>,
    <<"clients3", ".", "google", ".", "com">>,
    <<"msftconnecttest", ".", "com">>,
    <<"detectportal", ".", "firefox", ".", "com">>,
    <<"nmcheck", ".", "gnome", ".", "org">>,
    <<"network-test", ".", "debian", ".", "org">> }

\* Domain.matches(host)
Domain_matches(domain, host) == Contains(domain, host)

\* CheckDomainAccess.execute with rule 2 applied to youtube.com as to any other domain
CheckDomainAccess_execute_without_exclusion(host, base_domain, auto_whitelisted, allowed_domains) ==
  IF \E portal_host \in CAPTIVE_PORTAL_HOSTS : Contains(portal_host, host)
  THEN Allow(CAPTIVE_PORTAL, <<"Captive portal detection URL: ">> \o host)
  ELSE IF base_domain \in auto_whitelisted
  THEN Allow(CAPTIVE_PORTAL, <<"Auto-detected captive portal: ">> \o base_domain)
  ELSE IF base_domain \in ESSENTIAL_HOSTS
  THEN Allow(ESSENTIAL_ALWAYS_ALLOWED, <<"Essential host: ">> \o base_domain)
  ELSE IF \E domain \in allowed_domains :
            Domain_matches(domain, host) \/ Domain_matches(domain, base_domain)
  THEN Allow(NOT_WHITELISTED, <<"Whitelisted domain: ">> \o host)
  ELSE Deny(NOT_WHITELISTED, <<"Domain not ", "whitelisted", ": ">> \o base_domain)

\* CheckDomainAccess.execute(host, base_domain), with the auto-whitelist set and
\* the list that DomainRepository.get_allowed_domains() returns
CheckDomainAccess_execute(host, base_domain, auto_whitelisted, allowed_domains) ==
  IF \E portal_host \in CAPTIVE_PORTAL_HOSTS : Contains(portal_host, host)
  THEN Allow(CAPTIVE_PORTAL, <<"Captive portal detection URL: ">> \o host)
  ELSE IF base_domain \in auto_whitelisted /\ base_domain # D_youtube_com
  THEN Allow(CAPTIVE_PORTAL, <<"Auto-detected captive portal: ">> \o base_domain)
  ELSE IF base_domain \in ESSENTIAL_HOSTS
  THEN Allow(ESSENTIAL_ALWAYS_ALLOWED, <<"Essential host: ">> \o base_domain)
  ELSE IF \E domain \in allowed_domains :
            Domain_matches(domain, host) \/ Domain_matches(domain, base_domain)
  THEN Allow(NOT_WHITELISTED, <<"Whitelisted domain: ">> \o host)
  ELSE Deny(NOT_WHITELISTED, <<"Domain not ", "whitelisted", ": ">> \o base_domain)

(***************************************************************************)
(* YouTubeAPIClient (adapters/external_services/youtube_api_client.py).    *)
(* VideoChannel is what the YouTube Data API knows; a call ends as one of  *)
(* ApiOutcomes.  NoChannel is Python's None for a channel id.  A result    *)
(* is the channel and whether the call raised instead of returning.        *)
(***************************************************************************)
NoChannel == ""

VideoChannel == (V1 :> "UCabc") @@ (V2 :> "UCxyz")

ApiOutcomes == {"ok", "network_error", "http_error"}

\* get_channel_id_from_video without the try/except around the HTTP call
get_channel_id_from_video_uncaught(video_id, api_key, net) ==
  IF ~api_key THEN [channel |-> NoChannel, raised |-> FALSE]
  ELSE IF net = "network_error" THEN [channel |-> NoChannel, raised |-> TRUE]
  ELSE IF net = "http_error" THEN [channel |-> NoChannel, raised |-> FALSE]
  ELSE IF video_id \in DOMAIN VideoChannel
       THEN [channel |-> VideoChannel[video_id], raised |-> FALSE]
       ELSE [channel |-> NoChannel, raised |-> FALSE]

\* YouTubeAPIClient.get_channel_id_from_video(video_id): every failure is
\* caught inside the client and answered with None
get_channel_id_from_video(video_id, api_key, net) ==
  IF ~api_key THEN [channel |-> NoChannel, raised |-> FALSE]
  ELSE IF net = "network_error" THEN [channel |-> NoChannel, raised |-> FALSE]
  ELSE IF net = "http_error" THEN [channel |-> NoChannel, raised |-> FALSE]
  ELSE IF video_id \in DOMAIN VideoChannel
       THEN [channel |-> VideoChannel[video_id], raised |-> FALSE]
       ELSE [channel |-> NoChannel, raised |-> FALSE]

(***************************************************************************)
(* CheckYouTubeAccess (application/use_cases/check_youtube_access.py).     *)
(* A result of execute is the decision, the video id extracted, the cache  *)
(* afterwards, whether the client was called and whether it raised.        *)
(***************************************************************************)
\* _get_channel_id, lines 111-116 without the test of line 113: the client's
\* answer is cached whatever it is
get_channel_id_from_api_memoizing_none(video_id, cache, r) ==
  [channel |-> r.channel,
   cache   |-> (video_id :> r.channel) @@ cache,
   called  |-> TRUE,
   raised  |-> r.raised]

\* _get_channel_id, lines 111-116: the client's answer r is cached when it names a channel
get_channel_id_from_api(video_id, cache, r) ==
  [channel |-> r.channel,
   cache   |-> IF r.channel # NoChannel /\ ~r.raised
               THEN (video_id :> r.channel) @@ cache ELSE cache,
   called  |-> TRUE,
   raised  |-> r.raised]

\* _get_channel_id without the cache lookup of lines 108-109
get_channel_id_uncached(video_id, cache, api_key, net) ==
  get_channel_id_from_api(video_id, cache, get_channel_id_from_video(video_id, api_key, net))

\* CheckYouTubeAccess._get_channel_id(video_id)
get_channel_id(video_id, cache, api_key, net) ==
  IF video_id \in DOMAIN cache
  THEN [channel |-> cache[video_id], cache |-> cache, called |-> FALSE, raised |-> FALSE]
  ELSE get_channel_id_from_api(video_id, cache,
                               get_channel_id_from_video(video_id, api_key, net))

\* execute, lines 43-67, allowing every video whose channel was resolved
execute_for_channel_any_resolved(video_id, r, allowed_channel_ids) ==
  [decision |->
     IF r.raised THEN NoDecision
     ELSE IF r.channel = NoChannel
     THEN Deny(YOUTUBE_CHANNEL_BLOCKED, <<"Could not verify channel for video ">> \o video_id)
     ELSE Allow(YOUTUBE_CHANNEL_BLOCKED, <<"YouTube channel ", r.channel, " is ", "whitelisted">>),
   video_id |-> video_id, cache |-> r.cache, called |-> r.called, raised |-> r.raised]

\* execute, lines 43-67: the decision for the channel lookup r of video_id
execute_for_channel(video_id, r, allowed_channel_ids) ==
  [decision |->
     IF r.raised THEN NoDecision
     ELSE IF r.channel = NoChannel
     THEN Deny(YOUTUBE_CHANNEL_BLOCKED, <<"Could not verify channel for video ">> \o video_id)
     ELSE IF r.channel \in allowed_channel_ids
     THEN Allow(YOUTUBE_CHANNEL_BLOCKED, <<"YouTube channel ", r.channel, " is ", "whitelisted">>)
     ELSE Deny(YOUTUBE_CHANNEL_BLOCKED, <<"YouTube channel ", r.channel, " not ", "whitelisted">>),
   video_id |-> video_id, cache |-> r.cache, called |-> r.called, raised |-> r.raised]

\* execute, lines 34-67, sending a URL without a video id to the channel lookup
execute_for_video_lookup_always(video_id, cache, allowed_channel_ids, api_key, net) ==
  execute_for_channel(video_id, get_channel_id(video_id, cache, api_key, net),
                      allowed_channel_ids)

\* execute, lines 34-67: the decision for the video id that _extract_video_id returned
execute_for_video(video_id, cache, allowed_channel_ids, api_key, net) ==
  IF video_id = None
  THEN [decision |-> Allow(NOT_WHITELISTED, <<"Not a YouTube video URL">>),
        video_id |-> video_id, cache |-> cache, called |-> FALSE, raised |-> FALSE]
  ELSE execute_for_channel(video_id, get_channel_id(video_id, cache, api_key, net),
                           allowed_channel_ids)

\* CheckYouTubeAccess.execute(url), with the cache, the list that
\* YouTubeChannelRepository.get_allowed_channels() returns and the API's answer
CheckYouTubeAccess_execute(url, cache, allowed_channel_ids, api_key, net) ==
  execute_for_video(ExtractedId[url], cache, allowed_channel_ids, api_key, net)

\* CheckYouTubeAccess.is_enabled
is_enabled(allowed_channel_ids) == Cardinality(allowed_channel_ids) > 0

(***************************************************************************)
(* GPSCoordinates, BlockedZone and VerifyLocationRestrictions              *)
(* (domain/value_objects.py, domain/entities.py,                           *)
(* application/use_cases/verify_location_restrictions.py).                 *)
(*                                                                         *)
(* Latitudes and longitudes are in millidegrees, distances in millimetres. *)
(* The zones and the reported positions of the model lie on one meridian,  *)
(* where the Haversine formula gives R * |delta_lat| (in radians).         *)
(* A zone carries the id that the repository's rows have and that          *)
(* blocked_zone_id reads; the component holds the list of zones that its   *)
(* constructor declares.                                                   *)
(***************************************************************************)
Abs(x) == IF x < 0 THEN 0 - x ELSE x

\* GPSCoordinates.__post_init__ does not raise
ValidCoordinates(lat, lon) ==
  /\ 0 - 90000 <= lat /\ lat <= 90000
  /\ 0 - 180000 <= lon /\ lon <= 180000

\* BlockedZone._calculate_distance(location), for a location on the zone's meridian
calculate_distance(zone, location) ==
  MillimetresPerMillidegree * Abs(location.lat - zone.lat)

\* BlockedZone.is_within_zone(location): (is_within, distance)
is_within_zone(zone, location) ==
  [within |-> calculate_distance(zone, location) <= zone.radius,
   distance |-> calculate_distance(zone, location)]

NoZone     == [id |-> 0, lat |-> 0, lon |-> 0, radius |-> 0, name |-> "None"]
NoDistance == 0 - 1

\* PostgresLocationRepository.get_blocked_zones() (lines 73-100): the empty list
\* when the read fails (98-100), when the table is empty, and also for every
\* row that was read, because BlockedZone (domain/entities.py 9-14) has no field
\* id and the constructor call of lines 85-93 raises TypeError inside the try
get_blocked_zones(d) == <<>>

\* what DependencyContainer.get_verify_location_restrictions_use_case (lines 90-96)
\* hands to VerifyLocationRestrictions.__init__ as blocked_zones: the location
\* repository itself, an object without __iter__ and __len__.  It is written as
\* a one-element tuple so that it can be told from every list of zones.
LocationRepositoryObject ==
  <<[id |-> 0, lat |-> 0, lon |-> 0, radius |-> 0, name |-> "PostgresLocationRepository"]>>

\* `for zone in self._blocked_zones` (line 29) and len(self._blocked_zones)
\* (line 73) do not raise TypeError
IsList(zones) == zones # LocationRepositoryObject

\* VerifyLocationRestrictions.is_blocked / blocked_zone_id / has_blocked_zones
is_blocked        == currently_at_blocked_location
blocked_zone_id   == current_blocked_zone.id
has_blocked_zones == Len(blocked_zones) > 0

\* the geofence fields of VerifyLocationRestrictions
Geofence == [is_blocked |-> currently_at_blocked_location,
             zone |-> current_blocked_zone, distance |-> last_distance]

\* execute, lines 44-53, returning the allow decision but leaving the fields as they were
NotAtBlockedLocation_fields_kept ==
  [is_blocked |-> currently_at_blocked_location, zone |-> current_blocked_zone,
   distance |-> last_distance,
   decision |-> Allow(LOCATION_RESTRICTED, <<"Not at blocked location">>)]

\* execute, lines 44-53: no zone holds the coordinates
NotAtBlockedLocation ==
  [is_blocked |-> FALSE, zone |-> NoZone, distance |-> NoDistance,
   decision |-> Allow(LOCATION_RESTRICTED, <<"Not at blocked location">>)]

\* execute, lines 32-42: zone holds the coordinates, distance away from its centre
AtBlockedLocation(zone, distance) ==
  [is_blocked |-> TRUE, zone |-> zone, distance |-> distance,
   decision |-> Deny(LOCATION_RESTRICTED, <<"At blocked location: ", zone.name>>)]

\* VerifyLocationRestrictions.execute(coordinates), the loop from index i on:
\* the geofence fields afterwards and the decision returned
RECURSIVE VerifyFrom(_, _, _)
VerifyFrom(zones, i, coordinates) ==
  IF i > Len(zones) THEN NotAtBlockedLocation
  ELSE IF is_within_zone(zones[i], coordinates).within
  THEN AtBlockedLocation(zones[i], is_within_zone(zones[i], coordinates).distance)
  ELSE VerifyFrom(zones, i + 1, coordinates)

\* execute choosing, among the zones that hold the coordinates, the closest one
VerifyLocationRestrictions_execute_closest(zones, coordinates) ==
  LET holding == {i \in 1..Len(zones) : is_within_zone(zones[i], coordinates).within}
      closest == CHOOSE i \in holding :
                   \A j \in holding :
                     \/ calculate_distance(zones[i], coordinates)
                          < calculate_distance(zones[j], coordinates)
                     \/ /\ calculate_distance(zones[i], coordinates)
                             = calculate_distance(zones[j], coordinates)
                        /\ i <= j
  IN  IF holding = {} THEN NotAtBlockedLocation
      ELSE AtBlockedLocation(zones[closest], calculate_distance(zones[closest], coordinates))

VerifyLocationRestrictions_execute(zones, coordinates) == VerifyFrom(zones, 1, coordinates)

(***************************************************************************)
(* The repositories (adapters/repositories/postgres_*.py) over a database  *)
(* d = [up, allowed_hosts, youtube_channels, blocked_location_whitelist];  *)
(* a read that fails answers with the repository's fallback.               *)
(***************************************************************************)
\* PostgresDomainRepository.get_allowed_domains()
get_allowed_domains(d) == IF d.up THEN d.allowed_hosts ELSE {D_amazon_com}

\* PostgresYouTubeChannelRepository.get_allowed_channels(), as channel ids
get_allowed_channels(d) == IF d.up THEN d.youtube_channels ELSE {}

\* PostgresLocationRepository.get_location_whitelist(blocked_location_id)
get_location_whitelist(d, blocked_location_id) ==
  IF d.up THEN {row[2] : row \in {w \in d.blocked_location_whitelist : w[1] = blocked_location_id}}
  ELSE {}

\* PostgresLocationRepository.store_location(location_data) does not raise
store_location_ok(d) == d.up

(***************************************************************************)
(* The outcome of handling an event.  status 0: the hook set no response,  *)
(* the proxy forwards the request upstream.  route is the flow that the    *)
(* dispatch chose, stage the stage of the normal flow that answered,       *)
(* was_blocked, saw_zone and saw_distance are the geofence fields at the   *)
(* time the event arrived, video_id the id that the YouTube evaluator      *)
(* extracted, body_status and block_page the status field and the presence *)
(* of a block_page field in the JSON answer of the location endpoint,      *)
(* stored the coordinates that store_location wrote to the database,       *)
(* repeated whether the hook before handled the same flow.                 *)
(***************************************************************************)
Outcome(op, flow, net, route) ==
  [op |-> op, flow |-> flow, net |-> net, route |-> route, stage |-> "none",
   was_blocked |-> currently_at_blocked_location,
   saw_zone |-> current_blocked_zone, saw_distance |-> last_distance,
   status |-> 0, page |-> "none", blocked |-> "none",
   domain_decision |-> NoDecision, youtube_decision |-> NoDecision,
   location_decision |-> NoDecision, video_id |-> None,
   api_called |-> FALSE, raised |-> FALSE,
   body_status |-> "none", block_page |-> FALSE, stored |-> <<>>,
   repeated |-> FALSE]

(***************************************************************************)
(* ProxyHandler.request, normal flow: the YouTube watch-page stage         *)
(* (proxy_handler.py lines 104-141).  A result is the approved set and the *)
(* cache afterwards, the evaluator's decision and whether the stage        *)
(* answered with the block page.                                           *)
(***************************************************************************)
\* line 104: self.check_youtube_access.is_enabled and 'youtube.com' in full_hostname,
\* with == in the place of in
YouTubeApplies_exact_host(channels, full_hostname) ==
  is_enabled(channels) /\ full_hostname = D_youtube_com

\* line 104 without the test of is_enabled
YouTubeApplies_always_enabled(channels, full_hostname) ==
  Contains(D_youtube_com, full_hostname)

\* line 104: self.check_youtube_access.is_enabled and 'youtube.com' in full_hostname
YouTubeApplies(channels, full_hostname) ==
  is_enabled(channels) /\ Contains(D_youtube_com, full_hostname)

\* line 116 with the membership test reversed: an id that is already approved
IsNewVideo_already_approved(current_video_id, approved) ==
  current_video_id # None /\ current_video_id \in approved

\* line 116: current_video_id and current_video_id not in self._approved_video_ids
IsNewVideo(current_video_id, approved) ==
  current_video_id # None /\ current_video_id \notin approved

\* lines 116-119: a video id that is not approved clears the approved set
ClearOnNewVideo(current_video_id, approved) ==
  IF IsNewVideo(current_video_id, approved) THEN {} ELSE approved

\* lines 123-140 with discard(current_video_id) in the place of clear(), as lines 318-319 have it
ApprovedAfterWatchDecision_discard(decision, current_video_id, approved) ==
  IF ~decision.allowed THEN approved \ {current_video_id}
  ELSE IF Contains(<<"whitelisted">>, decision.message) /\ current_video_id # None
  THEN approved \cup {current_video_id}
  ELSE approved

\* lines 123-140: the approved set after the evaluator's decision
ApprovedAfterWatchDecision(decision, current_video_id, approved) ==
  IF ~decision.allowed THEN {}
  ELSE IF Contains(<<"whitelisted">>, decision.message) /\ current_video_id # None
  THEN approved \cup {current_video_id}
  ELSE approved

\* lines 123-141 for the result r of the evaluator; cleared is the approved set
\* as lines 116-119 left it
YouTubeStageResult(r, current_video_id, cleared) ==
  [approved |-> IF r.raised THEN cleared
                ELSE ApprovedAfterWatchDecision(r.decision, current_video_id, cleared),
   cache    |-> r.cache,
   decision |-> r.decision,
   video_id |-> r.video_id,
   blocked  |-> ~r.raised /\ ~r.decision.allowed,
   called   |-> r.called,
   raised   |-> r.raised]

\* lines 121-141
YouTubeStageEvaluate(youtube_url, current_video_id, cleared, cache, channels, net) ==
  YouTubeStageResult(CheckYouTubeAccess_execute(youtube_url, cache, channels, has_api_key, net),
                     current_video_id, cleared)

\* lines 105-141
YouTubeStage(youtube_url, approved, cache, channels, net) ==
  YouTubeStageEvaluate(youtube_url, CurrentId[youtube_url],
                       ClearOnNewVideo(CurrentId[youtube_url], approved),
                       cache, channels, net)

(***************************************************************************)
(* ProxyHandler.request, normal flow: the googlevideo.com stage            *)
(* (proxy_handler.py lines 143-189).                                       *)
(***************************************************************************)
\* line 144: self.check_youtube_access.is_enabled and 'googlevideo.com' in full_hostname
CdnApplies(channels, full_hostname) ==
  is_enabled(channels) /\ Contains(D_googlevideo_com, full_hostname)

\* lines 152-178 with the approved set consulted for every Referer, not only for
\* one that yields no video id
CdnStageResult_approved_for_any_referer(r, approved) ==
  [cache    |-> r.cache,
   decision |-> r.decision,
   video_id |-> r.video_id,
   blocked  |-> ~r.raised /\ approved = {} /\
                (Contains(<<"Not a YouTube video URL">>, r.decision.message)
                   \/ ~r.decision.allowed),
   called   |-> r.called,
   raised   |-> r.raised]

\* lines 152-178 for the result r of the evaluator on the Referer
CdnStageResult(r, approved) ==
  [cache    |-> r.cache,
   decision |-> r.decision,
   video_id |-> r.video_id,
   blocked  |-> /\ ~r.raised
                /\ IF Contains(<<"Not a YouTube video URL">>, r.decision.message)
                   THEN approved = {}
                   ELSE ~r.decision.allowed,
   called   |-> r.called,
   raised   |-> r.raised]

\* lines 179-189: no Referer, or a Referer that does not name youtube.com
CdnStageWithoutReferer(cache) ==
  [cache |-> cache, decision |-> NoDecision, video_id |-> None, blocked |-> TRUE,
   called |-> FALSE, raised |-> FALSE]

\* lines 145-189 with the approved set consulted when there is no YouTube Referer
CdnStage_approved_without_referer(referer, approved, cache, channels, net) ==
  IF referer # <<>> /\ Contains(D_youtube_com, referer)
  THEN CdnStageResult(CheckYouTubeAccess_execute(referer, cache, channels, has_api_key, net),
                      approved)
  ELSE [CdnStageWithoutReferer(cache) EXCEPT !.blocked = (approved = {})]

\* lines 145-189
CdnStage(referer, approved, cache, channels, net) ==
  IF referer # <<>> /\ Contains(D_youtube_com, referer)
  THEN CdnStageResult(CheckYouTubeAccess_execute(referer, cache, channels, has_api_key, net),
                      approved)
  ELSE CdnStageWithoutReferer(cache)

(***************************************************************************)
(* ProxyHandler.request, normal flow (proxy_handler.py lines 95-203).      *)
(* A result is the approved set and the cache afterwards and the outcome.  *)
(***************************************************************************)
\* lines 152-191 for the result cdn of the googlevideo.com stage
AfterCdnStage(approved, out, cdn) ==
  [approved |-> approved, cache |-> cdn.cache,
   out |-> [out EXCEPT !.stage = "cdn",
                       !.youtube_decision = cdn.decision,
                       !.video_id = cdn.video_id,
                       !.api_called = out.api_called \/ cdn.called,
                       !.raised = cdn.raised,
                       !.status = IF cdn.blocked THEN 403 ELSE 0,
                       !.page = IF cdn.blocked THEN "youtube" ELSE "none"]]

\* lines 143-191
CdnPart(flow, net, hb, channels, approved, cache, out) ==
  IF CdnApplies(channels, hb.full_hostname)
  THEN AfterCdnStage(approved, out, CdnStage(flow.referer, approved, cache, channels, net))
  ELSE [approved |-> approved, cache |-> cache, out |-> out]

\* the outcome after the watch-page stage yt
WatchOutcome(out, yt) ==
  [out EXCEPT !.stage = "watch",
              !.youtube_decision = yt.decision,
              !.video_id = yt.video_id,
              !.api_called = yt.called,
              !.raised = yt.raised,
              !.status = IF yt.blocked THEN 403 ELSE 0,
              !.page = IF yt.blocked THEN "youtube" ELSE "none"]

\* lines 123-191 for the result yt of the watch-page stage
AfterYouTubeStage(flow, net, hb, channels, out, yt) ==
  IF yt.blocked \/ yt.raised
  THEN [approved |-> yt.approved, cache |-> yt.cache, out |-> WatchOutcome(out, yt)]
  ELSE CdnPart(flow, net, hb, channels, yt.approved, yt.cache, WatchOutcome(out, yt))

\* lines 102-203 for the decision of the domain evaluator
AfterDomainCheck(flow, net, hb, channels, decision, out) ==
  IF ~decision.allowed
  THEN [approved |-> approved_video_ids, cache |-> video_to_channel_cache,
        out |-> [out EXCEPT !.stage = "domain", !.domain_decision = decision,
                            !.status = 403, !.page = "domain"]]
  ELSE IF YouTubeApplies(channels, hb.full_hostname)
  THEN AfterYouTubeStage(flow, net, hb, channels, [out EXCEPT !.domain_decision = decision],
                         YouTubeStage(build_full_url(flow), approved_video_ids,
                                      video_to_channel_cache, channels, net))
  ELSE CdnPart(flow, net, hb, channels, approved_video_ids, video_to_channel_cache,
               [out EXCEPT !.domain_decision = decision])

\* lines 97-100: decision = self.check_domain_access.execute(full_hostname, base_domain)
DomainDecision(hb) ==
  CheckDomainAccess_execute(hb.full_hostname, hb.base_domain,
                            auto_whitelisted_hosts, get_allowed_domains(db))

\* lines 95-203 for the (full_hostname, base_domain) of the flow
NormalFlowFor(flow, net, hb) ==
  AfterDomainCheck(flow, net, hb, get_allowed_channels(db), DomainDecision(hb),
                   Outcome("request", flow, net, "normal"))

\* lines 128-129, 159-160, 169-170, 182-183 and 195-197: every block page of the
\* normal flow passes through _inject_location_script_into_html, which reads
\* has_blocked_zones (line 390) before flow.response is set.  When that raises,
\* the hook ends without a response and the proxy, which logs the exceptions of
\* its addons and carries on, forwards the request.
BlockPageSent(r) ==
  IF r.out.status = 403 /\ ~IsList(blocked_zones)
  THEN [r EXCEPT !.out.status = 0, !.out.page = "none", !.out.raised = TRUE]
  ELSE r

NormalFlow(flow, net) == BlockPageSent(NormalFlowFor(flow, net, HostAndBase[flow]))

(***************************************************************************)
(* ProxyHandler._handle_blocked_location_flow (proxy_handler.py 339-373).  *)
(***************************************************************************)
\* the local list essential_hosts of line 358
blocked_flow_essential_hosts == {D_apple_com, D_icloud_com, D_icloud_content_com, D_mzstatic_com}

\* line 359: any(essential in base_domain for essential in essential_hosts)
BlockedFlowEssential(base_domain) ==
  \E essential \in blocked_flow_essential_hosts : Contains(essential, base_domain)

\* lines 364-369: the per-location whitelist of the current zone allows the host
BlockedFlowWhitelisted(full_hostname, base_domain) ==
  /\ blocked_zone_id # 0
  /\ \E domain \in get_location_whitelist(db, blocked_zone_id) :
        Contains(domain, full_hostname) \/ Contains(domain, base_domain)

\* lines 354-373 for the (full_hostname, base_domain) of the flow
BlockedLocationFlowFor(hb, out) ==
  IF BlockedFlowEssential(hb.base_domain) THEN out
  ELSE IF BlockedFlowWhitelisted(hb.full_hostname, hb.base_domain) THEN out
  ELSE [out EXCEPT !.status = 403, !.page = "location"]

\* the blocked-location flow with the domain evaluator consulted first
BlockedLocationFlow_with_domain_evaluator(flow, net) ==
  [BlockedLocationFlowFor(HostAndBase[flow], Outcome("request", flow, net, "blocked_location"))
     EXCEPT !.domain_decision = DomainDecision(HostAndBase[flow])]

\* ProxyHandler._handle_blocked_location_flow(flow, full_host)
BlockedLocationFlow(flow, net) ==
  BlockedLocationFlowFor(HostAndBase[flow], Outcome("request", flow, net, "blocked_location"))

(***************************************************************************)
(* ProxyHandler._handle_youtube_video_check (proxy_handler.py 281-337).    *)
(***************************************************************************)
\* lines 315-319: the approved set after the evaluator's decision
ApprovedAfterVideoCheck(decision, video_id, approved) ==
  IF decision.allowed /\ Contains(<<"whitelisted">>, decision.message)
  THEN approved \cup {video_id}
  ELSE IF ~decision.allowed THEN approved \ {video_id}
  ELSE approved

\* lines 310-337 with the blocked field answered from the approved set
AfterVideoCheck_from_approved_set(video_id, out, r) ==
  IF r.raised
  THEN [approved |-> approved_video_ids, cache |-> r.cache,
        out |-> [out EXCEPT !.api_called = r.called, !.video_id = r.video_id,
                            !.raised = r.raised]]
  ELSE [approved |-> ApprovedAfterVideoCheck(r.decision, video_id, approved_video_ids),
        cache    |-> r.cache,
        out      |-> [out EXCEPT !.youtube_decision = r.decision,
                                 !.video_id = r.video_id,
                                 !.api_called = r.called,
                                 !.blocked = IF video_id \in approved_video_ids
                                             THEN "false" ELSE "true"]]

\* lines 310-337 for the result r of the evaluator
AfterVideoCheck(video_id, out, r) ==
  IF r.raised
  THEN [approved |-> approved_video_ids, cache |-> r.cache,
        out |-> [out EXCEPT !.api_called = r.called, !.video_id = r.video_id,
                            !.raised = r.raised]]
  ELSE [approved |-> ApprovedAfterVideoCheck(r.decision, video_id, approved_video_ids),
        cache    |-> r.cache,
        out      |-> [out EXCEPT !.youtube_decision = r.decision,
                                 !.video_id = r.video_id,
                                 !.api_called = r.called,
                                 !.blocked = IF r.decision.allowed THEN "false" ELSE "true"]]

\* lines 291-337 without the test of is_enabled at lines 299-305
YouTubeVideoCheckFor_without_enabled_test(video_id, channels, net, out) ==
  IF video_id = None
  THEN [approved |-> approved_video_ids, cache |-> video_to_channel_cache, out |-> out]
  ELSE AfterVideoCheck(video_id, out,
                       CheckYouTubeAccess_execute(WATCH_URL_PREFIX \o video_id,
                                                  video_to_channel_cache, channels,
                                                  has_api_key, net))

\* lines 291-337 for the v parameter of the path
YouTubeVideoCheckFor(video_id, channels, net, out) ==
  IF video_id = None \/ ~is_enabled(channels)
  THEN [approved |-> approved_video_ids, cache |-> video_to_channel_cache, out |-> out]
  ELSE AfterVideoCheck(video_id, out,
                       CheckYouTubeAccess_execute(WATCH_URL_PREFIX \o video_id,
                                                  video_to_channel_cache, channels,
                                                  has_api_key, net))

YouTubeVideoCheck(flow, net) ==
  YouTubeVideoCheckFor(CheckedId[flow], get_allowed_channels(db), net,
                       [Outcome("request", flow, net, "video_check")
                          EXCEPT !.status = 200, !.page = "json", !.blocked = "false"])

(***************************************************************************)
(* ProxyHandler._handle_location_tracking (proxy_handler.py 228-279).      *)
(***************************************************************************)
\* lines 253-272 with the blocked field taken from is_blocked before execute
AfterVerifyLocation_mode_before(out, v) ==
  [geo |-> [is_blocked |-> v.is_blocked, zone |-> v.zone, distance |-> v.distance],
   out |-> [out EXCEPT !.status = 200, !.location_decision = v.decision,
                       !.body_status = "ok",
                       !.blocked = IF is_blocked THEN "true" ELSE "false",
                       !.block_page = is_blocked]]

\* lines 253-272 for the result v of VerifyLocationRestrictions.execute
AfterVerifyLocation(out, v) ==
  [geo |-> [is_blocked |-> v.is_blocked, zone |-> v.zone, distance |-> v.distance],
   out |-> [out EXCEPT !.status = 200, !.location_decision = v.decision,
                       !.body_status = "ok",
                       !.blocked = IF v.decision.allowed THEN "false" ELSE "true",
                       !.block_page = ~v.decision.allowed]]

\* the body with its coordinates forced into range, which no line of the source does
Clamped(body) ==
  [body EXCEPT !.lat = IF body.lat > 90000 THEN 90000
                       ELSE IF body.lat < 0 - 90000 THEN 0 - 90000 ELSE body.lat,
               !.lon = IF body.lon > 180000 THEN 180000
                       ELSE IF body.lon < 0 - 180000 THEN 0 - 180000 ELSE body.lon]

\* lines 231-279 with coordinates out of range clamped instead of refused
LocationTrackingFor_clamping(body, out) ==
  IF ~body.json_ok \/ ~body.has_coords \/ ~store_location_ok(db)
  THEN [geo |-> Geofence, out |-> [out EXCEPT !.status = 400, !.body_status = "error"]]
  ELSE AfterVerifyLocation([out EXCEPT !.stored = <<[lat |-> Clamped(body).lat,
                                                     lon |-> Clamped(body).lon]>>],
         VerifyLocationRestrictions_execute(blocked_zones,
                                            [lat |-> Clamped(body).lat, lon |-> Clamped(body).lon]))

\* lines 231-279 with a StoreLocation.execute that logs the failure of the
\* repository without raising it again
LocationTrackingFor_store_failure_logged(body, out) ==
  IF ~body.json_ok \/ ~body.has_coords \/ ~ValidCoordinates(body.lat, body.lon)
  THEN [geo |-> Geofence, out |-> [out EXCEPT !.status = 400, !.body_status = "error"]]
  ELSE AfterVerifyLocation([out EXCEPT !.stored = IF store_location_ok(db)
                                                   THEN <<[lat |-> body.lat, lon |-> body.lon]>>
                                                   ELSE <<>>],
         VerifyLocationRestrictions_execute(blocked_zones, [lat |-> body.lat, lon |-> body.lon]))

\* lines 231-279 with the reports of one device evaluated and the reports that
\* name another device_id stored and answered only
LocationTrackingFor_one_device(body, out) ==
  IF ~body.json_ok \/ ~body.has_coords \/ ~ValidCoordinates(body.lat, body.lon)
     \/ ~store_location_ok(db)
  THEN [geo |-> Geofence, out |-> [out EXCEPT !.status = 400, !.body_status = "error"]]
  ELSE IF body.device_id # "iPhone"
  THEN [geo |-> Geofence,
        out |-> [out EXCEPT !.status = 200, !.body_status = "ok",
                            !.stored = <<[lat |-> body.lat, lon |-> body.lon]>>]]
  ELSE AfterVerifyLocation([out EXCEPT !.stored = <<[lat |-> body.lat, lon |-> body.lon]>>],
         VerifyLocationRestrictions_execute(blocked_zones, [lat |-> body.lat, lon |-> body.lon]))

\* lines 231-279 for the body of the report
LocationTrackingFor(body, out) ==
  IF ~body.json_ok \/ ~body.has_coords \/ ~ValidCoordinates(body.lat, body.lon)
     \/ ~store_location_ok(db)
  THEN [geo |-> Geofence, out |-> [out EXCEPT !.status = 400, !.body_status = "error"]]
  ELSE IF ~IsList(blocked_zones)
  THEN [geo |-> Geofence,
        out |-> [out EXCEPT !.status = 400, !.body_status = "error",
                            !.stored = <<[lat |-> body.lat, lon |-> body.lon]>>]]
  ELSE AfterVerifyLocation([out EXCEPT !.stored = <<[lat |-> body.lat, lon |-> body.lon]>>],
         VerifyLocationRestrictions_execute(blocked_zones, [lat |-> body.lat, lon |-> body.lon]))

LocationTracking(flow) ==
  LocationTrackingFor(flow.body,
                      [Outcome("request", flow, "ok", "location_endpoint") EXCEPT !.page = "json"])

(***************************************************************************)
(* ProxyHandler.request (proxy_handler.py 66-203): the dispatch.  A result *)
(* is the approved set, the cache and the geofence fields afterwards and   *)
(* the outcome.                                                            *)
(***************************************************************************)
IsLocationEndpoint(flow) == flow.path = <<"/", "__track_location__">> /\ flow.method = "POST"

\* flow.request.path.startswith("/__check_youtube_video__")
IsVideoCheckEndpoint(flow) ==
  Len(flow.path) >= 2 /\ SubSeq(flow.path, 1, 2) = <<"/", "__check_youtube_video__">>

\* a handler that returns the geofence to normal, as lines 45-47 of execute do
WithGeofence_reset(r) ==
  [approved |-> r.approved, cache |-> r.cache,
   geo |-> [is_blocked |-> FALSE, zone |-> NoZone, distance |-> NoDistance], out |-> r.out]

\* a handler that leaves the geofence fields alone
WithGeofence(r) == [approved |-> r.approved, cache |-> r.cache, geo |-> Geofence, out |-> r.out]

\* a handler that leaves the approved set and the cache alone
WithApprovals(r) ==
  [approved |-> approved_video_ids, cache |-> video_to_channel_cache,
   geo |-> r.geo, out |-> r.out]

\* the dispatch with the test of line 90 ahead of the tests of lines 73 and 78
HandleRequest_geofence_first(flow, net) ==
  IF is_blocked
  THEN WithApprovals([geo |-> Geofence, out |-> BlockedLocationFlow(flow, net)])
  ELSE IF IsLocationEndpoint(flow) THEN WithApprovals(LocationTracking(flow))
  ELSE IF IsVideoCheckEndpoint(flow) THEN WithGeofence(YouTubeVideoCheck(flow, net))
  ELSE WithGeofence(NormalFlow(flow, net))

\* lines 73-93: the dispatch
HandleRequest(flow, net) ==
  IF IsLocationEndpoint(flow) THEN WithApprovals(LocationTracking(flow))
  ELSE IF IsVideoCheckEndpoint(flow) THEN WithGeofence(YouTubeVideoCheck(flow, net))
  ELSE IF is_blocked
  THEN WithApprovals([geo |-> Geofence, out |-> BlockedLocationFlow(flow, net)])
  ELSE WithGeofence(NormalFlow(flow, net))

(***************************************************************************)
(* ProxyHandler._detect_captive_portal (proxy_handler.py 909-953), the     *)
(* part of ProxyHandler.response that changes state.  A result is the      *)
(* redirect tracker and the auto-whitelist set afterwards.                 *)
(***************************************************************************)
REDIRECT_CODES == {302, 307, 303, 301}

\* lines 937-939: the tracker with orig_base_domain added to the set of redirect_base_domain
Tracked(tracker, redirect_base_domain, orig_base_domain) ==
  (redirect_base_domain :>
     ((IF redirect_base_domain \in DOMAIN tracker THEN tracker[redirect_base_domain] ELSE {})
        \cup {orig_base_domain}))
    @@ tracker

\* lines 941-943 with the threshold of line 941 at one origin
AfterTracking_single_origin(tracker, auto, redirect_base_domain) ==
  [tracker |-> tracker,
   auto    |-> IF Cardinality(tracker[redirect_base_domain]) >= 1
               THEN auto \cup {redirect_base_domain} ELSE auto]

\* lines 941-943 for the tracker that lines 937-939 left
AfterTracking(tracker, auto, redirect_base_domain) ==
  [tracker |-> tracker,
   auto    |-> IF Cardinality(tracker[redirect_base_domain]) >= 2
               THEN auto \cup {redirect_base_domain} ELSE auto]

\* lines 932-943 without the test of line 930: a redirect within one base domain
\* is handled as any other
DetectRedirect_same_domain_tracked(flow, tracker, auto, redirect_base_domain, orig_base_domain) ==
  IF \E host \in CAPTIVE_PORTAL_HOSTS : Contains(host, flow.host)
  THEN [tracker |-> tracker, auto |-> auto \cup {redirect_base_domain}]
  ELSE AfterTracking(Tracked(tracker, redirect_base_domain, orig_base_domain), auto,
                     redirect_base_domain)

\* lines 930-943 without the branch of lines 932-934: every redirect is tracked
DetectRedirect_always_tracked(flow, tracker, auto, redirect_base_domain, orig_base_domain) ==
  IF redirect_base_domain = orig_base_domain THEN [tracker |-> tracker, auto |-> auto]
  ELSE AfterTracking(Tracked(tracker, redirect_base_domain, orig_base_domain), auto,
                     redirect_base_domain)

\* lines 930-943 for the two base domains
DetectRedirect(flow, tracker, auto, redirect_base_domain, orig_base_domain) ==
  IF redirect_base_domain = orig_base_domain THEN [tracker |-> tracker, auto |-> auto]
  ELSE IF \E host \in CAPTIVE_PORTAL_HOSTS : Contains(host, flow.host)
  THEN [tracker |-> tracker, auto |-> auto \cup {redirect_base_domain}]
  ELSE AfterTracking(Tracked(tracker, redirect_base_domain, orig_base_domain), auto,
                     redirect_base_domain)

\* lines 918-922: the host that the Location header names
redirect_host_of(flow) ==
  IF Head(flow.location) \in {"http", "https"}
  THEN urlparse_netloc(flow.location) ELSE flow.host

\* lines 912-946
DetectRedirects(flow, tracker, auto) ==
  IF flow.status_code \in REDIRECT_CODES /\ flow.location # <<>>
  THEN DetectRedirect(flow, tracker, auto, ExtractBaseDomain(redirect_host_of(flow)),
                      ExtractBaseDomain(flow.host))
  ELSE [tracker |-> tracker, auto |-> auto]

\* lines 948-953 with the set replaced by the host of the 511 answer
Detect511_replacing(flow, r) ==
  IF flow.status_code = 511
  THEN [tracker |-> r.tracker, auto |-> {ExtractBaseDomain(flow.host)}]
  ELSE r

\* lines 948-953 after the result r of lines 912-946
Detect511(flow, r) ==
  IF flow.status_code = 511
  THEN [tracker |-> r.tracker, auto |-> r.auto \cup {ExtractBaseDomain(flow.host)}]
  ELSE r

DetectCaptivePortal(flow, tracker, auto) == Detect511(flow, DetectRedirects(flow, tracker, auto))

(***************************************************************************)
(* The events of the process.  The proxy calls the hooks request and       *)
(* response, plain functions, on its event loop, one at a time: an event   *)
(* is handled only while no handler is in flight.  The database changes    *)
(* between events.                                                         *)
(***************************************************************************)
IdlePc == [at |-> "idle", flow |-> NoFlow, net |-> "none", is_new |-> FALSE]

\* hooks that run on threads of their own, whatever is in flight
EventLoopIdle_concurrent == TRUE

\* hooks that run while execute is between two of its assignments
EventLoopIdle_during_execute == pc.at \in {"idle", "report_blocked", "report_zone"}

\* no handler is in flight
EventLoopIdle == pc.at = "idle"

\* lines 123-135: a watch page was denied by the YouTube stage
WatchDenied(out) == out.stage = "watch" /\ out.status = 403

\* lines 62-67 of execute: the channel was resolved and is not in the whitelist
ChannelNotWhitelisted(decision) ==
  ~decision.allowed /\ Contains(<<" not ", "whitelisted">>, decision.message)

\* lines 53-58 of execute: a YouTube decision allowed a video
VideoAllowed(out) == out.youtube_decision.allowed /\ out.video_id # None

\* the history variable after an outcome: set by a watch page denied for its
\* channel, reset by a YouTube decision that allows a video
BlockPendingAfter(out) ==
  IF WatchDenied(out) /\ ChannelNotWhitelisted(out.youtube_decision) THEN TRUE
  ELSE IF VideoAllowed(out) THEN FALSE
  ELSE block_pending

\* history: the hook handled last was the same hook with the same flow, and the
\* YouTube API, if that handling called it, ended as it would end now
SameEventAgain(op, flow, net) ==
  last.op = op /\ last.flow = flow /\ (last.api_called => last.net = net)

\* ProxyHandler.request(flow); net is how a call of the YouTube API would end
Request(flow, net) ==
  /\ EventLoopIdle
  /\ \E r \in {HandleRequest(flow, net)} :
       /\ approved_video_ids' = r.approved
       /\ video_to_channel_cache' = r.cache
       /\ currently_at_blocked_location' = r.geo.is_blocked
       /\ current_blocked_zone' = r.geo.zone
       /\ last_distance' = r.geo.distance
       /\ last' = [r.out EXCEPT !.net = IF r.out.api_called THEN net ELSE "none",
                                !.repeated = SameEventAgain("request", flow, net)]
       /\ block_pending' = BlockPendingAfter(r.out)
  /\ UNCHANGED <<redirect_tracker, auto_whitelisted_hosts, blocked_zones,
                 has_api_key, db, pc>>

\* ProxyHandler.response (lines 205-217): _inject_location_tracking_script reads
\* has_blocked_zones first (line 493), and the hook ends there when that raises
ResponseHook(flow, tracker, auto) ==
  IF IsList(blocked_zones) THEN DetectCaptivePortal(flow, tracker, auto)
  ELSE [tracker |-> tracker, auto |-> auto]

\* ProxyHandler.response(flow)
Response(flow) ==
  /\ EventLoopIdle
  /\ \E r \in {ResponseHook(flow, redirect_tracker, auto_whitelisted_hosts)} :
       /\ redirect_tracker' = r.tracker
       /\ auto_whitelisted_hosts' = r.auto
  /\ last' = [Outcome("response", flow, "none", "none")
                EXCEPT !.raised = ~IsList(blocked_zones),
                       !.repeated = SameEventAgain("response", flow, "none")]
  /\ UNCHANGED <<approved_video_ids, video_to_channel_cache, blocked_zones,
                 currently_at_blocked_location, current_blocked_zone, last_distance,
                 has_api_key, db, pc, block_pending>>

\* the tables change, or the database goes down or comes back
DbChange(d) ==
  /\ EventLoopIdle
  /\ d # db
  /\ db' = d
  /\ last' = Outcome("db", NoFlow, "none", "none")
  /\ UNCHANGED <<approved_video_ids, redirect_tracker, auto_whitelisted_hosts,
                 video_to_channel_cache, blocked_zones, currently_at_blocked_location,
                 current_blocked_zone, last_distance, has_api_key, pc, block_pending>>

\* ProxyHandler.__init__, VerifyLocationRestrictions.__init__(zones),
\* CheckDomainAccess.__init__, CheckYouTubeAccess.__init__
Constructed(zones, api_key, d) ==
  /\ approved_video_ids = {}
  /\ redirect_tracker = <<>>
  /\ auto_whitelisted_hosts = {}
  /\ video_to_channel_cache = <<>>
  /\ blocked_zones = zones
  /\ currently_at_blocked_location = FALSE
  /\ current_blocked_zone = NoZone
  /\ last_distance = NoDistance
  /\ has_api_key = api_key
  /\ db = d
  /\ pc = IdlePc
  /\ last = [Outcome("init", NoFlow, "none", "none") EXCEPT !.was_blocked = FALSE]
  /\ block_pending = FALSE

(***************************************************************************)
(* The watch-page request of ProxyHandler.request in three steps: the      *)
(* membership check of line 116, the clear of lines 117-119, and the       *)
(* evaluation of lines 121-141 with the rest of the handler.               *)
(***************************************************************************)
\* lines 73-104: the request reaches the watch-page stage
ReachesWatchStage(flow, hb) ==
  /\ ~IsLocationEndpoint(flow)
  /\ ~IsVideoCheckEndpoint(flow)
  /\ ~is_blocked
  /\ DomainDecision(hb).allowed
  /\ YouTubeApplies(get_allowed_channels(db), hb.full_hostname)

\* lines 66-116
WatchCheck(flow, net) ==
  /\ pc.at = "idle"
  /\ ReachesWatchStage(flow, HostAndBase[flow])
  /\ pc' = [at |-> "checked", flow |-> flow, net |-> net,
            is_new |-> IsNewVideo(CurrentId[build_full_url(flow)], approved_video_ids)]
  /\ last' = Outcome("watch_check", flow, "none", "normal")
  /\ UNCHANGED <<approved_video_ids, redirect_tracker, auto_whitelisted_hosts,
                 video_to_channel_cache, blocked_zones, currently_at_blocked_location,
                 current_blocked_zone, last_distance, has_api_key, db, block_pending>>

\* lines 117-119
WatchClear ==
  /\ pc.at = "checked"
  /\ approved_video_ids' = IF pc.is_new THEN {} ELSE approved_video_ids
  /\ pc' = [pc EXCEPT !.at = "cleared"]
  /\ last' = Outcome("watch_clear", pc.flow, "none", "normal")
  /\ UNCHANGED <<redirect_tracker, auto_whitelisted_hosts, video_to_channel_cache,
                 blocked_zones, currently_at_blocked_location, current_blocked_zone,
                 last_distance, has_api_key, db, block_pending>>

\* lines 121-191 of the handler in flight
EvaluateInFlight(flow, net, hb, channels) ==
  BlockPageSent(
    AfterYouTubeStage(flow, net, hb, channels,
                      [Outcome("request", flow, net, "normal")
                         EXCEPT !.domain_decision = DomainDecision(hb)],
                      YouTubeStageEvaluate(build_full_url(flow), CurrentId[build_full_url(flow)],
                                           approved_video_ids, video_to_channel_cache,
                                           channels, net)))

\* lines 121-203
WatchEvaluate ==
  /\ pc.at = "cleared"
  /\ \E r \in {EvaluateInFlight(pc.flow, pc.net, HostAndBase[pc.flow], get_allowed_channels(db))} :
       /\ approved_video_ids' = r.approved
       /\ video_to_channel_cache' = r.cache
       /\ last' = [r.out EXCEPT !.net = IF r.out.api_called THEN pc.net ELSE "none"]
       /\ block_pending' = BlockPendingAfter(r.out)
  /\ pc' = IdlePc
  /\ UNCHANGED <<redirect_tracker, auto_whitelisted_hosts, blocked_zones,
                 currently_at_blocked_location, current_blocked_zone, last_distance,
                 has_api_key, db>>

(***************************************************************************)
(* The location report of ProxyHandler._handle_location_tracking in three  *)
(* steps, one for each assignment of VerifyLocationRestrictions.execute    *)
(* (verify_location_restrictions.py lines 32-34 and 45-47); the last step  *)
(* carries the rest of the handler (proxy_handler.py lines 255-272).       *)
(***************************************************************************)
\* proxy_handler.py lines 73 and 231-252: the report reaches execute
ReachesExecute(flow) ==
  /\ IsLocationEndpoint(flow)
  /\ flow.body.json_ok /\ flow.body.has_coords
  /\ ValidCoordinates(flow.body.lat, flow.body.lon)
  /\ store_location_ok(db)

\* line 253: self.verify_location.execute(coordinates) for the report flow
ExecuteFor(flow) ==
  VerifyLocationRestrictions_execute(blocked_zones,
                                     [lat |-> flow.body.lat, lon |-> flow.body.lon])

\* execute, line 32 or line 45
ReportSetBlocked(flow) ==
  /\ pc.at = "idle"
  /\ ReachesExecute(flow)
  /\ IsList(blocked_zones)
  /\ currently_at_blocked_location' = ExecuteFor(flow).is_blocked
  /\ pc' = [at |-> "report_blocked", flow |-> flow, net |-> "none", is_new |-> FALSE]
  /\ last' = [Outcome("report_blocked", flow, "none", "location_endpoint")
                EXCEPT !.stored = <<[lat |-> flow.body.lat, lon |-> flow.body.lon]>>]
  /\ UNCHANGED <<approved_video_ids, redirect_tracker, auto_whitelisted_hosts,
                 video_to_channel_cache, blocked_zones, current_blocked_zone,
                 last_distance, has_api_key, db, block_pending>>

\* execute, line 33 or line 46
ReportSetZone ==
  /\ pc.at = "report_blocked"
  /\ current_blocked_zone' = ExecuteFor(pc.flow).zone
  /\ pc' = [pc EXCEPT !.at = "report_zone"]
  /\ last' = [last EXCEPT !.op = "report_zone", !.flow = pc.flow,
                          !.route = "location_endpoint"]
  /\ UNCHANGED <<approved_video_ids, redirect_tracker, auto_whitelisted_hosts,
                 video_to_channel_cache, blocked_zones, currently_at_blocked_location,
                 last_distance, has_api_key, db, block_pending>>

\* execute, line 34 or line 47, and lines 255-272 of the handler
ReportSetDistance ==
  /\ pc.at = "report_zone"
  /\ last_distance' = ExecuteFor(pc.flow).distance
  /\ pc' = IdlePc
  /\ last' = AfterVerifyLocation([last EXCEPT !.op = "request", !.flow = pc.flow,
                                              !.net = "ok", !.route = "location_endpoint",
                                              !.page = "json"],
                                 ExecuteFor(pc.flow)).out
  /\ UNCHANGED <<approved_video_ids, redirect_tracker, auto_whitelisted_hosts,
                 video_to_channel_cache, blocked_zones, currently_at_blocked_location,
                 current_blocked_zone, has_api_key, db, block_pending>>

(***************************************************************************)
(* SpecYouTube: the YouTube traffic of one device: watch pages, CDN        *)
(* fetches, video checks, with location reports, a captive-portal answer   *)
(* for youtube.com and changes of the channel whitelist in between.        *)
(***************************************************************************)
InitYouTube ==
  \E api_key \in BOOLEAN, d \in YT_Databases : Constructed(<<ZA>>, api_key, d)

NextYouTube ==
  \/ \E flow \in YT_Flows, net \in ApiOutcomes : Request(flow, net)
  \/ \E flow \in YT_Answers : Response(flow)
  \/ \E d \in YT_Databases : DbChange(d)

SpecYouTube == InitYouTube /\ [][NextYouTube]_vars

(***************************************************************************)
(* SpecHooks: watch pages handled step by step, with CDN fetches and video *)
(* checks as the other events of the event loop.                           *)
(***************************************************************************)
InitHooks == \E d \in HK_Databases : Constructed(<<ZA>>, TRUE, d)

NextHooks ==
  \/ \E flow \in HK_WatchFlows, net \in {"ok", "network_error"} : WatchCheck(flow, net)
  \/ WatchClear
  \/ WatchEvaluate
  \/ \E flow \in HK_Flows : Request(flow, "ok")
  \/ \E d \in HK_Databases : DbChange(d)

SpecHooks == InitHooks /\ [][NextHooks]_vars

(***************************************************************************)
(* SpecGeofence: a device that reports positions along the meridian and    *)
(* browses, under every configured list of zones.                          *)
(***************************************************************************)
InitGeofence == \E zones \in ZoneLists, d \in GF_Databases : Constructed(zones, TRUE, d)

NextGeofence ==
  \/ \E flow \in GF_Flows : Request(flow, "ok")
  \/ \E flow \in GF_Answers : Response(flow)
  \/ \E d \in GF_Databases : DbChange(d)

SpecGeofence == InitGeofence /\ [][NextGeofence]_vars

(***************************************************************************)
(* SpecPortal: a device behind captive portals: detection hosts, redirects *)
(* and 511 answers, with the domain whitelist changing in between.         *)
(***************************************************************************)
InitPortal == \E d \in PT_Databases : Constructed(<<ZA>>, TRUE, d)

NextPortal ==
  \/ \E flow \in PT_Flows : Request(flow, "ok")
  \/ \E flow \in PT_Answers : Response(flow)
  \/ \E d \in PT_Databases : DbChange(d)

SpecPortal == InitPortal /\ [][NextPortal]_vars

(***************************************************************************)
(* SpecReports: a device that browses while its location reports are       *)
(* handled assignment by assignment, under every configured list of zones. *)
(***************************************************************************)
InitReports == \E zones \in ZoneLists, d \in GF_Databases : Constructed(zones, TRUE, d)

NextReports ==
  \/ \E flow \in GF_Flows : ReportSetBlocked(flow)
  \/ ReportSetZone
  \/ ReportSetDistance
  \/ \E flow \in GF_Flows : ~IsLocationEndpoint(flow) /\ Request(flow, "ok")
  \/ \E d \in GF_Databases : DbChange(d)

SpecReports == InitReports /\ [][NextReports]_vars

(***************************************************************************)
(* SpecWired: the process as addons = [ProxyHandler()] builds it, with the *)
(* geofence component that the dependency container constructs: a device   *)
(* that reports positions and browses, with captive-portal answers.        *)
(***************************************************************************)
InitWired ==
  \E d \in GF_Databases \cup PT_Databases : Constructed(LocationRepositoryObject, TRUE, d)

NextWired ==
  \/ \E flow \in GF_Flows \cup PT_Flows : Request(flow, "ok")
  \/ \E flow \in GF_Answers \cup PT_Answers : Response(flow)
  \/ \E d \in GF_Databases \cup PT_Databases : DbChange(d)

SpecWired == InitWired /\ [][NextWired]_vars

(***************************************************************************)
(* The events that the properties below speak of, read off the outcome of  *)
(* the event handled last.                                                 *)
(***************************************************************************)
\* lines 73 and 78: the request is for one of the two dedicated endpoints
Dedicated(flow) == IsLocationEndpoint(flow) \/ IsVideoCheckEndpoint(flow)

\* the event handled last was a request for neither dedicated endpoint
OrdinaryRequest == last.op = "request" /\ ~Dedicated(last.flow)

\* line 144: 'googlevideo.com' in full_hostname, for the request handled last
ToGooglevideo ==
  OrdinaryRequest /\ Contains(D_googlevideo_com, HostAndBase[last.flow].full_hostname)

\* line 104: 'youtube.com' in full_hostname, for the request handled last
ToYouTube ==
  OrdinaryRequest /\ Contains(D_youtube_com, HostAndBase[last.flow].full_hostname)

\* CheckYouTubeAccess.is_enabled, now
FilteringEnabled == is_enabled(get_allowed_channels(db))

\* lines 148-166: the Referer is missing, names another site, or yields no video id
Unattributable(flow) ==
  \/ flow.referer = <<>>
  \/ ~Contains(D_youtube_com, flow.referer)
  \/ ExtractedId[flow.referer] = None

\* lines 253-272: the report handled last reached VerifyLocationRestrictions.execute
ReportEvaluated ==
  last.op = "request" /\ last.route = "location_endpoint" /\ last.status = 200

\* the coordinates of the report handled last
ReportedPosition == [lat |-> last.flow.body.lat, lon |-> last.flow.body.lon]

\* the indices of the configured zones that hold the reported coordinates
HoldingZones ==
  {i \in 1..Len(blocked_zones) :
     calculate_distance(blocked_zones[i], ReportedPosition) <= blocked_zones[i].radius}

C4_ApprovedEmptyAfterBlock ==
  (/\ last.op = "request"
   /\ \/ WatchDenied(last)
      \/ (last.route = "video_check" /\ last.blocked = "true"))
    => approved_video_ids = {}

C6_FirstMatchingRuleDecides ==
  (OrdinaryRequest /\ last.route = "normal")
    => LET host  == HostAndBase[last.flow].full_hostname
           base  == HostAndBase[last.flow].base_domain
           rule  == <<\E portal_host \in CAPTIVE_PORTAL_HOSTS : Contains(portal_host, host),
                      base \in auto_whitelisted_hosts /\ base # D_youtube_com,
                      base \in ESSENTIAL_HOSTS,
                      \E domain \in get_allowed_domains(db) :
                         Contains(domain, host) \/ Contains(domain, base),
                      TRUE>>
           then  == <<[allowed |-> TRUE,  reason |-> CAPTIVE_PORTAL],
                      [allowed |-> TRUE,  reason |-> CAPTIVE_PORTAL],
                      [allowed |-> TRUE,  reason |-> ESSENTIAL_ALWAYS_ALLOWED],
                      [allowed |-> TRUE,  reason |-> NOT_WHITELISTED],
                      [allowed |-> FALSE, reason |-> NOT_WHITELISTED]>>
           first == CHOOSE k \in 1..5 : rule[k] /\ \A j \in 1..(k - 1) : ~rule[j]
       IN  /\ last.domain_decision.allowed = then[first].allowed
           /\ last.domain_decision.reason = then[first].reason

\* C6: apple.com, an essential host, is in the auto-whitelist set as well, and a
\* request for it was allowed by the earlier rule, as a captive portal
C6_Witness ==
  /\ OrdinaryRequest /\ last.route = "normal"
  /\ last.flow = Get(H_apple, P_root)
  /\ D_apple_com \in auto_whitelisted_hosts
  /\ last.domain_decision = Allow(CAPTIVE_PORTAL, <<"Auto-detected captive portal: ">> \o D_apple_com)

(***************************************************************************)
(* C7                                                                      *)
(***************************************************************************)
\* C7: after a location report is evaluated, the current zone is the first zone in
\* configured order whose distance to the reported coordinates is at most its
\* radius, and there is no current zone when no zone holds the coordinates.
C7_FirstConfiguredZoneWins ==
  ReportEvaluated
    => IF HoldingZones = {}
       THEN ~currently_at_blocked_location /\ current_blocked_zone = NoZone
       ELSE \E i \in HoldingZones :
              /\ \A j \in HoldingZones : i <= j
              /\ currently_at_blocked_location
              /\ current_blocked_zone = blocked_zones[i]
              /\ last_distance = calculate_distance(blocked_zones[i], ReportedPosition)

\* C7: the report lies on the boundary of the first configured zone and at the
\* centre of the second, and the first is the current zone
C7_Witness ==
  /\ ReportEvaluated
  /\ blocked_zones = <<ZB, ZC>>
  /\ ReportedPosition.lat = ZC.lat
  /\ calculate_distance(ZB, ReportedPosition) = ZB.radius
  /\ current_blocked_zone = ZB

(***************************************************************************)
(* C8                                                                      *)
(***************************************************************************)
\* C8: a location report evaluated outside every configured zone leaves the geofence
\* in NORMAL (not blocked, no current zone, no last distance) and returns an allow
\* decision, and an ordinary request handled next takes the normal flow.
C8_ReportOutsideZonesReturnsToNormal ==
  /\ [](ReportEvaluated /\ HoldingZones = {}
          => /\ ~currently_at_blocked_location
             /\ current_blocked_zone = NoZone
             /\ last_distance = NoDistance
             /\ last.location_decision.allowed
             /\ last.location_decision.reason = LOCATION_RESTRICTED)
  /\ [][(ReportEvaluated /\ HoldingZones = {} /\ last'.op = "request" /\ ~Dedicated(last'.flow))
          => last'.route = "normal"]_vars

\* C8: a report outside every configured zone was evaluated while the geofence was
\* in blocked-location mode
C8_Witness ==
  /\ ReportEvaluated /\ HoldingZones = {}
  /\ blocked_zones # <<>>
  /\ last.was_blocked
  /\ ~currently_at_blocked_location

(***************************************************************************)
(* C9                                                                      *)
(***************************************************************************)
\* C9: when the channel of a video cannot be resolved (no API key, network error,
\* non-200 answer, video unknown to the API), the evaluator returns
\* Deny(YOUTUBE_CHANNEL_BLOCKED): it neither allows nor raises.
C9_UnresolvedChannelDenied ==
  (/\ last.op = "request" /\ last.api_called
   /\ \/ ~has_api_key
      \/ last.net # "ok"
      \/ last.video_id \notin DOMAIN VideoChannel)
    => /\ ~last.raised
       /\ ~last.youtube_decision.allowed
       /\ last.youtube_decision.reason = YOUTUBE_CHANNEL_BLOCKED

\* C9: the API call for a video that exists ended in a network error and the watch
\* page was answered with the YouTube block page
C9_Witness ==
  /\ last.op = "request" /\ last.api_called
  /\ has_api_key /\ last.net = "network_error"
  /\ last.video_id = V1
  /\ last.stage = "watch" /\ last.status = 403

CdnWithYouTubeReferer ==
  /\ ToGooglevideo /\ FilteringEnabled
  /\ last.flow.referer # <<>> /\ Contains(D_youtube_com, last.flow.referer)

\* the video of the Referer has a resolved channel and the channel is whitelisted
RefererVideoWhitelisted ==
  /\ ExtractedId[last.flow.referer] \in DOMAIN video_to_channel_cache
  /\ video_to_channel_cache[ExtractedId[last.flow.referer]] \in get_allowed_channels(db)

\* the decision that the claim states for the googlevideo.com request handled last
CdnForwardedAsStated ==
  IF ExtractedId[last.flow.referer] # None
  THEN last.status = 0 <=> RefererVideoWhitelisted
  ELSE last.status = 0 <=> approved_video_ids # {}

TrackedRedirect(flow) ==
  /\ flow.status_code \in REDIRECT_CODES /\ flow.location # <<>>
  /\ ExtractBaseDomain(redirect_host_of(flow)) # ExtractBaseDomain(flow.host)
  /\ ~\E host \in CAPTIVE_PORTAL_HOSTS : Contains(host, flow.host)

\* the origin base domains from which redirects to t have been observed
Origins(tracker, t) == IF t \in DOMAIN tracker THEN tracker[t] ELSE {}

EvaluatedResolvedVideo ==
  /\ last.op = "request" /\ last.youtube_decision # NoDecision
  /\ last.video_id # None
  /\ last.video_id \in DOMAIN video_to_channel_cache

\* C13: for a URL that yields a video id whose channel is resolved, the YouTube
\* evaluator allows iff the channel is in the channel whitelist of the database as it
\* is at the evaluation, and a denial carries YOUTUBE_CHANNEL_BLOCKED.
C13_ResolvedChannelDecides ==
  EvaluatedResolvedVideo =>
    /\ last.youtube_decision.allowed
          <=> video_to_channel_cache[last.video_id] \in get_allowed_channels(db)
    /\ last.youtube_decision.reason = YOUTUBE_CHANNEL_BLOCKED

\* C13: v2, of channel UCxyz, was denied with YOUTUBE_CHANNEL_BLOCKED under the
\* whitelist {UCabc} after v1, of channel UCabc, had been resolved
C13_Witness ==
  /\ EvaluatedResolvedVideo /\ last.video_id = V2
  /\ video_to_channel_cache = (V1 :> "UCabc") @@ (V2 :> "UCxyz")
  /\ get_allowed_channels(db) = {"UCabc"}
  /\ ~last.youtube_decision.allowed
  /\ last.youtube_decision.reason = YOUTUBE_CHANNEL_BLOCKED

(***************************************************************************)
(* C14                                                                     *)
(***************************************************************************)
\* C14: after a watch-page request that the YouTube evaluator allows for a video
\* id, the video id that the evaluator resolved is in the approved set.
C14_AllowedVideoApproved ==
  (/\ last.op = "request" /\ last.route = "normal" /\ last.stage = "watch"
   /\ last.youtube_decision.allowed /\ last.video_id # None)
    => last.video_id \in approved_video_ids

(***************************************************************************)
(* C15                                                                     *)
(***************************************************************************)
\* C15: a video id that has a memoized channel keeps it, unchanged, in every step,
\* and an evaluation that calls the channel-resolution client is the evaluation of
\* a video id that had no memoized channel.
C15_ResolvedOnceNeverAgain ==
  [][/\ \A v \in DOMAIN video_to_channel_cache :
          /\ v \in DOMAIN video_to_channel_cache'
          /\ video_to_channel_cache'[v] = video_to_channel_cache[v]
     /\ (last'.op = "request" /\ last'.api_called)
          => last'.video_id \notin DOMAIN video_to_channel_cache]_vars

\* C15: v1 was evaluated from its memoized channel, without a call of the client
C15_Witness ==
  /\ last.op = "request" /\ last.youtube_decision # NoDecision
  /\ last.video_id = V1 /\ ~last.api_called
  /\ V1 \in DOMAIN video_to_channel_cache
  /\ video_to_channel_cache[V1] = "UCabc"

(***************************************************************************)
(* C16                                                                     *)
(***************************************************************************)
\* C16: a request for one of the two dedicated endpoints is answered by the proxy
\* with a JSON body, whatever the host and the mode of the geofence: it is not
\* forwarded, not handled by the blocked-location flow or the normal flow, not
\* decided by the domain evaluator and not answered with a block page.
C16_DedicatedEndpointsAnswered ==
  (last.op = "request" /\ Dedicated(last.flow)) =>
    /\ last.status \in {200, 400}
    /\ last.page = "json"
    /\ last.route =
         (IF IsLocationEndpoint(last.flow) THEN "location_endpoint" ELSE "video_check")
    /\ last.domain_decision = NoDecision

\* C16: in blocked-location mode, a video check sent to a host that is on no
\* whitelist was answered with JSON
C16_Witness ==
  /\ last.op = "request" /\ last.flow = Get(H_example, P_check(V2))
  /\ last.was_blocked
  /\ D_example_com \notin get_location_whitelist(db, current_blocked_zone.id)
  /\ last.status = 200 /\ last.page = "json" /\ last.blocked = "true"

(***************************************************************************)
(* C17                                                                     *)
(***************************************************************************)
\* C17: a request handled by the blocked-location flow is decided without the domain
\* evaluator, the YouTube evaluator or the channel-resolution client, and leaves the
\* approved set, the video-to-channel cache, the auto-whitelist set and the
\* geofence state as they were; a youtube.com request that the zone's whitelist
\* allows is forwarded without a channel check.
C17_BlockedFlowConsultsNothingElse ==
  /\ []((last.op = "request" /\ last.route = "blocked_location") =>
          /\ last.domain_decision = NoDecision
          /\ last.youtube_decision = NoDecision
          /\ ~last.api_called
          /\ (ToYouTube /\ BlockedFlowWhitelisted(HostAndBase[last.flow].full_hostname,
                                                  HostAndBase[last.flow].base_domain))
               => last.status = 0)
  /\ [][(last'.op = "request" /\ last'.route = "blocked_location") =>
          UNCHANGED <<approved_video_ids, video_to_channel_cache, auto_whitelisted_hosts,
                      blocked_zones, currently_at_blocked_location, current_blocked_zone,
                      last_distance>>]_vars

\* C17: in blocked-location mode the watch page of v2, whose channel is not
\* whitelisted, was forwarded on the zone's whitelist while an approval was held
C17_Witness ==
  /\ last.op = "request" /\ last.route = "blocked_location"
  /\ last.flow = Get(H_youtube, P_watch(V2))
  /\ get_allowed_channels(db) = {"UCabc"}
  /\ approved_video_ids = {V1}
  /\ last.status = 0

C19_GeofenceChangesOnlyOnReport ==
  [][/\ blocked_zones' = blocked_zones
     /\ (<<currently_at_blocked_location, current_blocked_zone, last_distance>>'
           # <<currently_at_blocked_location, current_blocked_zone, last_distance>>)
          => (/\ last'.op = "request"
              /\ last'.route = "location_endpoint"
              /\ last'.status = 200)]_vars

\* C19: a report moved the geofence into blocked-location mode after watch pages had
\* been handled in normal mode
C19_Witness ==
  /\ ReportEvaluated /\ ~last.was_blocked
  /\ currently_at_blocked_location /\ current_blocked_zone = ZA
  /\ approved_video_ids # {}

(***************************************************************************)
(* C20                                                                     *)
(***************************************************************************)
\* properties 55-73 of VerifyLocationRestrictions read together: blocked mode,
\* a current zone and a last distance are all set or all unset
GeofenceConsistent(blocked, zone, distance) ==
  /\ blocked <=> zone # NoZone
  /\ zone # NoZone <=> distance # NoDistance

C21_AutoWhitelistGrowsAndAllows ==
  /\ [][auto_whitelisted_hosts \subseteq auto_whitelisted_hosts']_vars
  /\ []((/\ last.op = "request" /\ last.route = "normal"
         /\ HostAndBase[last.flow].base_domain \in auto_whitelisted_hosts
         /\ HostAndBase[last.flow].base_domain # D_youtube_com)
          => last.domain_decision.allowed)

\* C21: portal.net, added after redirects and followed by other additions, is
\* allowed as an auto-detected portal while the domain whitelist is empty
C21_Witness ==
  /\ {D_portal_net, D_apple_com, D_youtube_com} \subseteq auto_whitelisted_hosts
  /\ db.up /\ db.allowed_hosts = {}
  /\ last.op = "request" /\ last.route = "normal"
  /\ last.flow = GetSni(H_ip, H_portal, P_root)
  /\ last.domain_decision = Allow(CAPTIVE_PORTAL, <<"Auto-detected captive portal: ">> \o D_portal_net)

(***************************************************************************)
(* C22                                                                     *)
(***************************************************************************)
\* line 933: the answer is to a request for a captive-portal detection host
FromDetectionHost(flow) == \E host \in CAPTIVE_PORTAL_HOSTS : Contains(host, flow.host)

\* lines 912-930: a redirect whose target has another base domain than the request
RedirectsElsewhere(flow) ==
  /\ flow.status_code \in REDIRECT_CODES /\ flow.location # <<>>
  /\ ExtractBaseDomain(redirect_host_of(flow)) # ExtractBaseDomain(flow.host)

DecidedByDomainEvaluatorAlone ==
  /\ last.youtube_decision = NoDecision
  /\ last.status = (IF DomainDecision(HostAndBase[last.flow]).allowed THEN 0 ELSE 403)
  /\ last.page = (IF DomainDecision(HostAndBase[last.flow]).allowed THEN "none" ELSE "domain")

\* while get_allowed_channels() returns nothing, a request gets no YouTube block
\* page and no blocked answer of the video check, takes no YouTube decision,
\* calls no client and leaves the approved set as it was
NoYouTubeCheckWhileDisabled ==
  /\ []((last.op = "request" /\ ~FilteringEnabled) =>
          /\ last.page # "youtube"
          /\ last.route = "video_check" => last.blocked = "false"
          /\ last.youtube_decision = NoDecision
          /\ ~last.api_called)
  /\ [][(last'.op = "request" /\ ~FilteringEnabled)
          => approved_video_ids' = approved_video_ids]_vars

NoVideoIdIn(url) ==
  /\ ~HasParam(urlparse_query(url), "v")
  /\ ~HasParam(urlparse_query(url), "docid")
  /\ ~Contains(YOUTU_BE_SLASH, url)

\* the URLs of the model without a video id, tabulated once
UrlsWithoutVideoId == {url \in ModelUrls : NoVideoIdIn(url)}

\* C24: for every URL without a v parameter, without a docid parameter and
\* without youtu.be/ in it, CheckYouTubeAccess.execute returns the allow decision
\* "Not a YouTube video URL" without calling the client and without touching the
\* cache, under every channel whitelist, cache and state of the API; and a watch-page
\* stage that evaluated such a URL forwarded the request without a client call.
C24_NonVideoUrlAllowed ==
  /\ \A url \in UrlsWithoutVideoId, channels \in SUBSET {"UCabc", "UCxyz"}, net \in ApiOutcomes :
       \A r \in {CheckYouTubeAccess_execute(url, video_to_channel_cache, channels,
                                            has_api_key, net)} :
         /\ r.decision = Allow(NOT_WHITELISTED, <<"Not a YouTube video URL">>)
         /\ ~r.called
         /\ r.cache = video_to_channel_cache
  /\ (/\ last.op = "request" /\ last.stage = "watch"
      /\ build_full_url(last.flow) \in UrlsWithoutVideoId)
       => /\ last.youtube_decision.allowed
          /\ ~last.api_called
          /\ last.status = 0

\* C24: the YouTube home page was evaluated and forwarded while the whitelist held
\* one channel and the cache held a video of another
C24_Witness ==
  /\ last.op = "request" /\ last.stage = "watch" /\ last.flow = Get(H_youtube, P_root)
  /\ last.youtube_decision = Allow(NOT_WHITELISTED, <<"Not a YouTube video URL">>)
  /\ ~last.api_called /\ last.status = 0
  /\ get_allowed_channels(db) = {"UCabc"}
  /\ \E v \in DOMAIN video_to_channel_cache : video_to_channel_cache[v] = "UCxyz"

(***************************************************************************)
(* C25                                                                     *)
(***************************************************************************)
\* lines 232-250: the body of the report handled last parsed, carried coordinates
\* in range, and the location was stored
ReportStored ==
  /\ last.op = "request" /\ last.route = "location_endpoint"
  /\ last.flow.body.json_ok /\ last.flow.body.has_coords
  /\ ValidCoordinates(last.flow.body.lat, last.flow.body.lon)
  /\ store_location_ok(db)

MalformedReport(flow) ==
  /\ IsLocationEndpoint(flow)
  /\ \/ ~flow.body.json_ok
     \/ ~flow.body.has_coords
     \/ flow.body.lat < 0 - 90000 \/ flow.body.lat > 90000
     \/ flow.body.lon < 0 - 180000 \/ flow.body.lon > 180000

\* C26: the handling of a location report whose body is not JSON, lacks a
\* coordinate or has a latitude outside [-90, 90] or a longitude outside
\* [-180, 180] answers 400 with status error, stores no location, evaluates no
\* coordinates (clamped or not) and leaves the three geofence fields as they were.
C26_MalformedReportRefused ==
  [][(last'.op = "request" /\ MalformedReport(last'.flow)) =>
       /\ last'.status = 400 /\ last'.page = "json" /\ last'.body_status = "error"
       /\ last'.stored = <<>>
       /\ last'.location_decision = NoDecision
       /\ <<currently_at_blocked_location, current_blocked_zone, last_distance>>'
            = <<currently_at_blocked_location, current_blocked_zone, last_distance>>]_vars

\* C26: a report with latitude 90.001 was refused while the device was in
\* blocked-location mode, and the mode was kept
C26_Witness ==
  /\ last.op = "request" /\ last.flow = Report(90001, MeridianLon)
  /\ last.status = 400 /\ last.stored = <<>>
  /\ last.was_blocked /\ currently_at_blocked_location /\ current_blocked_zone = ZB
  /\ db.up

(***************************************************************************)
(* C27                                                                     *)
(***************************************************************************)
\* C27: the geofence component holds the list of zones that the location
\* repository returned at process start: every stored location report is answered
\* with 200 and with the decision of that list for the reported position, and
\* when the list is empty the decision is to allow and the device stays in normal
\* mode.
C27_ReportsDecidedByLoadedZones ==
  ReportStored =>
    /\ last.status = 200
    /\ last.location_decision
         = VerifyLocationRestrictions_execute(get_blocked_zones(db), ReportedPosition).decision
    /\ get_blocked_zones(db) = <<>> =>
         /\ last.location_decision.allowed
         /\ ~currently_at_blocked_location

WhitelistAloneDecidesOtherHosts ==
  (/\ OrdinaryRequest /\ last.was_blocked
   /\ ~BlockedFlowEssential(HostAndBase[last.flow].base_domain)) =>
    /\ last.status = 0 <=> BlockedFlowWhitelisted(HostAndBase[last.flow].full_hostname,
                                                  HostAndBase[last.flow].base_domain)
    /\ last.status # 0 => (last.status = 403 /\ last.page = "location")
    /\ ~db.up => (last.status = 403 /\ ~last.raised)

\* example.com, on the whitelist of the first zone, was refused there while the
\* database was down
WhitelistUnreadableInZone ==
  /\ OrdinaryRequest /\ last.was_blocked /\ current_blocked_zone = ZA
  /\ last.flow = Get(H_example, P_root)
  /\ ~db.up /\ <<1, D_example_com>> \in db.blocked_location_whitelist
  /\ last.status = 403 /\ last.page = "location"

(***************************************************************************)
(* C29                                                                     *)
(***************************************************************************)
\* the outcomes of the API under which the handling of the outcome out ran:
\* the one it met if it called the client, any if it did not
NetsOf(out) == IF out.api_called THEN {out.net} ELSE ApiOutcomes

\* C29: the handling of a video check with a v parameter, while the channel
\* whitelist is not empty, answers blocked true exactly when
\* CheckYouTubeAccess.execute denies the watch URL of that id in the state before
\* the check, and the decision it reports is the one that the watch-page stage of
\* the normal flow takes for that URL in the same state.
C29_VideoCheckAgreesWithWatchPage ==
  [][(/\ last'.op = "request" /\ last'.route = "video_check"
      /\ CheckedId[last'.flow] # None
      /\ FilteringEnabled) =>
       \A net \in NetsOf(last') :
         /\ last'.blocked = "true"
              <=> ~CheckYouTubeAccess_execute(WATCH_URL_PREFIX \o CheckedId[last'.flow],
                                              video_to_channel_cache,
                                              get_allowed_channels(db), has_api_key,
                                              net).decision.allowed
         /\ last'.youtube_decision
              = YouTubeStage(WATCH_URL_PREFIX \o CheckedId[last'.flow], approved_video_ids,
                             video_to_channel_cache, get_allowed_channels(db), net).decision
         /\ last'.status = 200 /\ last'.page = "json"]_vars

\* C29: after a watch page of v2 had been denied for its channel, the video check
\* of v2 answered blocked from the cache, without a call of the client
C29_Witness ==
  /\ last.op = "request" /\ last.route = "video_check"
  /\ last.flow = Get(H_youtube, P_check(V2))
  /\ last.blocked = "true" /\ ~last.api_called
  /\ ChannelNotWhitelisted(last.youtube_decision)
  /\ block_pending

(***************************************************************************)
(* C30                                                                     *)
(***************************************************************************)
\* C30: a request ends forwarded, or with a 403 block page, or, at a dedicated
\* endpoint, with a JSON answer.  It is forwarded only if no exception ended the
\* hook and its flow allowed it: in the normal flow the domain evaluator allowed
\* the host and no YouTube decision denied, in the blocked-location flow the
\* base domain passed the essential test or the whitelist of the zone.
C30_DeniedNeverForwarded ==
  last.op = "request" =>
    /\ \/ last.status = 0 /\ last.page = "none"
       \/ last.status = 403 /\ last.page \in {"domain", "youtube", "location"}
       \/ last.status \in {200, 400} /\ last.page = "json" /\ Dedicated(last.flow)
    /\ Dedicated(last.flow) => last.status # 0
    /\ last.status = 0 =>
         /\ ~last.raised
         /\ last.route = "normal" =>
              /\ last.domain_decision.allowed
              /\ last.youtube_decision = NoDecision \/ last.youtube_decision.allowed
         /\ last.route = "blocked_location" =>
              \/ BlockedFlowEssential(HostAndBase[last.flow].base_domain)
              \/ BlockedFlowWhitelisted(HostAndBase[last.flow].full_hostname,
                                        HostAndBase[last.flow].base_domain)

(***************************************************************************)
(* C31                                                                     *)
(***************************************************************************)
\* C31: when a hook handles the flow that the same hook handled just before, with
\* the database as it was and the YouTube API ending as before, the handling
\* leaves the auto-whitelist set, the redirect tracker, the approved set, the
\* video cache and the geofence state as it found them, and its answer and its
\* decisions are those of the handling before.
C31_SameEventTwice ==
  [][last'.repeated =>
       /\ auto_whitelisted_hosts' = auto_whitelisted_hosts
       /\ redirect_tracker' = redirect_tracker
       /\ approved_video_ids' = approved_video_ids
       /\ video_to_channel_cache' = video_to_channel_cache
       /\ Geofence' = Geofence
       /\ last'.status = last.status /\ last'.page = last.page
       /\ last'.blocked = last.blocked /\ last'.body_status = last.body_status
       /\ last'.block_page = last.block_page
       /\ last'.domain_decision = last.domain_decision
       /\ last'.youtube_decision = last.youtube_decision
       /\ last'.location_decision = last.location_decision]_vars

\* C31: the watch page of an approved video is requested a second time, while
\* another video is approved too: the cache answers, the page is forwarded and
\* both sets are as the first handling left them
C31_Witness ==
  /\ last.repeated /\ last.op = "request" /\ last.route = "normal"
  /\ last.flow = Get(H_youtube, P_watch(V1))
  /\ last.youtube_decision.allowed /\ ~last.api_called /\ last.status = 0
  /\ approved_video_ids = {V1, V2}
  /\ V1 \in DOMAIN video_to_channel_cache

(***************************************************************************)
(* C32                                                                     *)
(***************************************************************************)
\* URLs that carry a video id in each of the three places, in more than one of
\* them, in none, and with a v parameter that holds a '?' or is blank
ExtractionUrls ==
  ModelUrls \cup
    { <<"https", "://">> \o H_youtube \o <<"/", "watch", "?">> \o q :
        q \in { <<"v", "=">> \o V1 \o <<"&", "docid", "=">> \o V2,
                <<"docid", "=">> \o V2 \o <<"&", "v", "=">> \o V1,
                <<"docid", "=">> \o V2,
                <<"v", "=", "&", "docid", "=">> \o V2,
                <<"v", "=">> \o V1 \o <<"&", "v", "=">> \o V2,
                <<"v", "=">> \o V1_malformed \o <<"&", "docid", "=">> \o V2,
                <<"list", "=">> \o V1 } }
    \cup { <<"https", "://", "youtu", ".", "be", "/">> \o V1,
           <<"https", "://", "youtu", ".", "be", "/">> \o V1 \o <<"/">>,
           <<"https", "://", "youtu", ".", "be", "/">> \o V1 \o <<"?", "v", "=">> \o V2,
           <<"https", "://", "youtu", ".", "be", "/">> \o V1 \o <<"?", "docid", "=">> \o V2,
           <<"https", "://", "youtu", ".", "be", "/">> }

\* lines 78-100 of _extract_video_id: for every URL the id is the first value of
\* v up to its first '?', else the first value of docid, else the path of a URL
\* with youtu.be/ in it without its slashes, else none
ExtractionOrder ==
  \A url \in ExtractionUrls :
    \A query \in {parse_qs(urlparse_query(url))} :
      \A vs \in {SelectSeq(query, LAMBDA p : p.name = <<"v">>)} :
        \A ds \in {SelectSeq(query, LAMBDA p : p.name = <<"docid">>)} :
          extract_video_id(url) =
            IF vs # <<>> THEN Split(vs[1].value, "?")[1]
            ELSE IF ds # <<>> THEN ds[1].value
            ELSE IF Contains(YOUTU_BE_SLASH, url) THEN StripSlashes(urlparse_path(url))
            ELSE None

\* C32: _extract_video_id takes the id from v, cut at its first '?', else from
\* docid, else from the path of a youtu.be URL, else finds none; and for the
\* watch-page request handled last, the id that the handler extracted at lines
\* 109-112 is the id that the evaluator extracted from the same URL.
C32_SameIdInHandlerAndEvaluator ==
  /\ ExtractionOrder
  /\ (last.op = "request" /\ last.stage = "watch")
       => CurrentId[build_full_url(last.flow)] = ExtractedId[build_full_url(last.flow)]

(***************************************************************************)
(* C33                                                                     *)
(***************************************************************************)
\* C33: a step that evaluates a location report leaves the mode, the current
\* zone and the last distance that the first configured zone holding the reported
\* coordinates gives (normal mode when none holds them), whatever they were
\* before and whichever device_id the report names; every other step leaves them
\* as they were; and an ordinary request takes the blocked-location flow exactly
\* when the mode it finds is blocked.
C33_LastEvaluatedReportDecides ==
  [][/\ IF ReportEvaluated'
        THEN IF HoldingZones' = {}
             THEN Geofence' = [is_blocked |-> FALSE, zone |-> NoZone, distance |-> NoDistance]
             ELSE \E i \in HoldingZones' :
                    /\ \A j \in HoldingZones' : i <= j
                    /\ Geofence' = [is_blocked |-> TRUE, zone |-> blocked_zones[i],
                                    distance |-> calculate_distance(blocked_zones[i],
                                                                    ReportedPosition')]
        ELSE Geofence' = Geofence
     /\ (last'.op = "request" /\ ~Dedicated(last'.flow))
          => (last'.route = "blocked_location" <=> currently_at_blocked_location)]_vars

\* C33: a report naming another device, from outside every zone, ended the
\* blocked mode that the zone ZA had been holding
C33_Witness ==
  /\ ReportEvaluated /\ last.flow.body.device_id = "iPad"
  /\ HoldingZones = {}
  /\ last.was_blocked /\ last.saw_zone = ZA
  /\ Geofence = [is_blocked |-> FALSE, zone |-> NoZone, distance |-> NoDistance]

(***************************************************************************)
(* C34                                                                     *)
(***************************************************************************)
\* C34: the handling of a location report with coordinates in range while
\* store_location raises answers 400 with the JSON body {status: error}, stores
\* nothing, takes no location decision and leaves the mode, the current zone and
\* the last distance of the geofence as they were.
C34_StoreFailureSkipsEvaluation ==
  [][(/\ last'.op = "request" /\ IsLocationEndpoint(last'.flow)
      /\ last'.flow.body.json_ok /\ last'.flow.body.has_coords
      /\ ValidCoordinates(last'.flow.body.lat, last'.flow.body.lon)
      /\ ~store_location_ok(db))
       => /\ last'.status = 400 /\ last'.page = "json" /\ last'.body_status = "error"
          /\ last'.stored = <<>>
          /\ last'.location_decision = NoDecision
          /\ Geofence' = Geofence]_vars

\* C34: a report from the centre of the only configured zone was refused while
\* the database was down, and the geofence stayed in normal mode
C34_Witness ==
  /\ last.op = "request" /\ last.flow = Report(BaseLat, MeridianLon)
  /\ ~store_location_ok(db)
  /\ blocked_zones = <<ZA>> /\ HoldingZones = {1}
  /\ last.status = 400 /\ last.body_status = "error"
  /\ Geofence = [is_blocked |-> FALSE, zone |-> NoZone, distance |-> NoDistance]

(***************************************************************************)
(* C35                                                                     *)
(***************************************************************************)
\* C35: a request for the video-check endpoint is answered 200 with JSON; when
\* its path has no v parameter, when the channel whitelist is empty or when the
\* handling raised, the answer says blocked = false and the approved set is as
\* it was; otherwise the evaluator decided for the id of the v parameter and the
\* approved set is as it was with that id added if the decision allows for a
\* whitelisted channel and with that id removed if it denies.
C35_VideoCheckFailsOpen ==
  [][(last'.op = "request" /\ last'.route = "video_check") =>
       \A id \in {CheckedId[last'.flow]} :
         /\ last'.status = 200 /\ last'.page = "json"
         /\ IF id = None \/ ~FilteringEnabled \/ last'.raised
            THEN /\ last'.blocked = "false"
                 /\ approved_video_ids' = approved_video_ids
                 /\ last'.youtube_decision = NoDecision
            ELSE /\ last'.youtube_decision # NoDecision
                 /\ last'.blocked = (IF last'.youtube_decision.allowed THEN "false" ELSE "true")
                 /\ approved_video_ids' =
                      IF ~last'.youtube_decision.allowed THEN approved_video_ids \ {id}
                      ELSE IF Contains(<<"whitelisted">>, last'.youtube_decision.message)
                      THEN approved_video_ids \cup {id}
                      ELSE approved_video_ids]_vars

\* C35: the check of a video was answered blocked = false without a decision
\* while the channel whitelist was empty, and the id approved before stayed
\* approved
C35_Witness ==
  /\ last.op = "request" /\ last.route = "video_check"
  /\ last.flow = Get(H_youtube, P_check(V2))
  /\ ~FilteringEnabled
  /\ last.status = 200 /\ last.blocked = "false" /\ last.youtube_decision = NoDecision
  /\ approved_video_ids = {V1}

C37_FailedResolutionNotMemoized ==
  /\ [](\A v \in DOMAIN video_to_channel_cache :
          /\ v \in DOMAIN VideoChannel
          /\ video_to_channel_cache[v] = VideoChannel[v])
  /\ [][(/\ last'.op = "request" /\ last'.youtube_decision # NoDecision
         /\ last'.video_id # None /\ last'.video_id \notin DOMAIN video_to_channel_cache)
          => /\ last'.api_called
             /\ IF has_api_key /\ last'.net = "ok" /\ last'.video_id \in DOMAIN VideoChannel
                THEN /\ last'.video_id \in DOMAIN video_to_channel_cache'
                     /\ VideoChannel[last'.video_id] \in get_allowed_channels(db)
                          => last'.youtube_decision.allowed
                ELSE /\ video_to_channel_cache' = video_to_channel_cache
                     /\ ~last'.youtube_decision.allowed]_vars

\* C37: the watch page of v1 was requested twice while the network was down: the
\* second handling called the client again, denied again, and the cache, which
\* holds another video, has no entry for v1
C37_Witness ==
  /\ last.repeated /\ last.op = "request" /\ last.flow = Get(H_youtube, P_watch(V1))
  /\ has_api_key /\ last.api_called /\ last.net = "network_error"
  /\ ~last.youtube_decision.allowed /\ last.status = 403
  /\ DOMAIN video_to_channel_cache = {V2}

====
